---- MODULE Spec2Model ----
(***************************************************************************)
(* Peak-correlation and annotation callbacks of the OpenFAST plotter.      *)
(*                                                                         *)
(* Units.  Peak frequencies are integers in units of 1/30000 Hz, so that   *)
(* three units make 1e-4 Hz and "{freq:.4f}" never has to break a tie.     *)
(* Times are integers in units of 1/74400 s, which makes the sampling      *)
(* rates of the modelled files (2400, 2480 and 1200 frequency units)       *)
(* exact.  Magnitudes and phases are integers; NaN stands for numpy's nan. *)
(* A trace name "{signal} - {file}" is the record [signal, file]; the bare *)
(* legend name "{file}" of the separate plot style has signal = 0.         *)
(* Annotation frequencies are integers in units of 0.0004 Hz (1 Hz = 2500),*)
(* so that the 1e-3 Hz tolerance is 2.5 units and never met exactly; rotor *)
(* speeds are integers in units of 0.012 RPM (60 RPM = 5000).              *)
(***************************************************************************)
EXTENDS Integers, Sequences, FiniteSets, TLC

VARIABLES fft_call, fft_result, raw_data, current_phase_figure, selected_peaks, last,
          fft_annotations, custom_annotations, lastAnno, annoSteps,
          key_call, key_pos, key_cache, key_stored,
          tool_call, tool_result,
          prefs_file, prefs_threads, prefs_ops, lastPrefs,
          loaded_files, file_order, lastOrder

peakVars == <<raw_data, current_phase_figure, selected_peaks, last>>
annoVars == <<fft_annotations, custom_annotations, lastAnno, annoSteps>>
fftVars == <<fft_call, fft_result>>
keyVars == <<key_call, key_pos, key_cache, key_stored>>
toolVars == <<tool_call, tool_result>>
prefsVars == <<prefs_file, prefs_threads, prefs_ops, lastPrefs>>
orderVars == <<loaded_files, file_order, lastOrder>>
notPeakVars == <<annoVars, fftVars, keyVars, toolVars, prefsVars, orderVars>>
notAnnoVars == <<peakVars, fftVars, keyVars, toolVars, prefsVars, orderVars>>
notFftVars == <<peakVars, annoVars, keyVars, toolVars, prefsVars, orderVars>>
notKeyVars == <<peakVars, annoVars, fftVars, toolVars, prefsVars, orderVars>>
notToolVars == <<peakVars, annoVars, fftVars, keyVars, prefsVars, orderVars>>
notPrefsVars == <<peakVars, annoVars, fftVars, keyVars, toolVars, orderVars>>
notOrderVars == <<peakVars, annoVars, fftVars, keyVars, toolVars, prefsVars>>
vars == <<fft_call, fft_result, raw_data, current_phase_figure, selected_peaks, last,
          fft_annotations, custom_annotations, lastAnno, annoSteps,
          key_call, key_pos, key_cache, key_stored,
          tool_call, tool_result,
          prefs_file, prefs_threads, prefs_ops, lastPrefs,
          loaded_files, file_order, lastOrder>>

-----------------------------------------------------------------------------
(* Bounds and input domains *)

NFiles == 2
MaxPeaks == 2

Files == 1..NFiles
Signals == {1, 2}
SignalChoices == {{}, {1}, {1, 2}}
NExpChoices == {2, 3}
NoTime == -1
NoExp == -1
EndTimeChoices == {NoTime, 30}
PlotStyles == {"overlay", "separate"}
NoProminence == -1
ProminenceChoices == {NoProminence, 2}
ClickFrequencies == {0, 300, 301, 310}

NaN == -999
FreqPerTime == 74400

Abs(x) == IF x < 0 THEN -x ELSE x

Min(S) == CHOOSE x \in S : \A y \in S : x <= y

Max(S) == CHOOSE x \in S : \A y \in S : x >= y

RECURSIVE SelectSeq2(_, _)
SelectSeq2(s, keep) ==
    IF s = <<>> THEN <<>>
    ELSE IF keep[1] THEN <<Head(s)>> \o SelectSeq2(Tail(s), Tail(keep))
         ELSE SelectSeq2(Tail(s), Tail(keep))

-----------------------------------------------------------------------------
(* The loaded data frames (DATAFRAMES): per file a time column with a      *)
(* fixed step, per (file, signal) a column whose transform is tabulated.   *)

SampleStep(file) == CASE file = 1 -> 31 [] file = 2 -> 30 [] OTHER -> 62

TimeColumn(file) == [i \in 1..8 |-> (i - 1) * SampleStep(file)]

HasInf(file, signal) == file = 2 /\ signal = 2

MagnitudeTable(file, signal) ==
    CASE file = 1 /\ signal = 1 -> <<1, 4, 2, 5, 3>>
      [] file = 2 /\ signal = 1 -> <<3, 9, 6, 7, 2>>
      [] file = 1 /\ signal = 2 -> <<2, 8, 5, 5, 1>>
      [] OTHER -> <<0, 6, 1, 6, 6>>

PhaseTable(file, signal) ==
    CASE file = 1 /\ signal = 1 -> <<0, -3, -6, -8, -9>>
      [] file = 2 /\ signal = 1 -> <<2, -1, -5, -5, -7>>
      [] file = 1 /\ signal = 2 -> <<1, 1, -2, -4, -3>>
      [] OTHER -> <<0, -4, -4, -6, -10>>

-----------------------------------------------------------------------------
(* tools/phase_analysis.py: compute_phase_fft and perform_phase_fft *)

RECURSIVE SortInts(_)
SortInts(s) ==
    IF s = <<>> THEN <<>>
    ELSE LET i == CHOOSE i \in 1..Len(s) : \A j \in 1..Len(s) : s[i] <= s[j]
         IN <<s[i]>> \o SortInts(SubSeq(s, 1, i - 1) \o SubSeq(s, i + 1, Len(s)))

Median(s) ==
    LET o == SortInts(s)
        n == Len(s)
    IN IF n % 2 = 1 THEN o[(n + 1) \div 2]
       ELSE (o[n \div 2] + o[n \div 2 + 1]) \div 2

Diff(t) == [i \in 1..(Len(t) - 1) |-> t[i + 1] - t[i]]

Pow2(e) == IF e = 0 THEN 1 ELSE IF e = 1 THEN 2 ELSE IF e = 2 THEN 4 ELSE 8

rfftfreq(n, dt) == [k \in 1..(n \div 2 + 1) |-> ((k - 1) * FreqPerTime) \div (n * dt)]

perform_phase_fft(file, signal, t) ==
    LET dt == Median(Diff(t))
        n == Len(t)
        freq == rfftfreq(n, dt)
        bins == Len(freq)
    IN [ok |-> TRUE,
        freq |-> freq,
        magnitude |-> IF HasInf(file, signal) THEN [k \in 1..bins |-> NaN]
                      ELSE SubSeq(MagnitudeTable(file, signal), 1, bins),
        phase |-> IF HasInf(file, signal) THEN [k \in 1..bins |-> NaN]
                  ELSE SubSeq(PhaseTable(file, signal), 1, bins)]

Failed == [ok |-> FALSE, freq |-> <<>>, magnitude |-> <<>>, phase |-> <<>>]

(* A data frame: whether it has the time and signal columns, whether their *)
(* dtype is numeric, and the two columns row by row.                       *)
Frame(has_columns, numeric, time, value) ==
    [has_columns |-> has_columns, numeric |-> numeric, time |-> time, value |-> value]

(* Variant: the end of the time range is exclusive. *)
TimeMaskExclusiveEnd(time, start_time, end_time) ==
    [i \in 1..Len(time) |->
        /\ (start_time # NoTime => (time[i] # NaN /\ time[i] >= start_time))
        /\ (end_time # NoTime => (time[i] # NaN /\ time[i] < end_time))]

(* mask & (time >= start_time) & (time <= end_time); a nan compares False. *)
TimeMask(time, start_time, end_time) ==
    [i \in 1..Len(time) |->
        /\ (start_time # NoTime => (time[i] # NaN /\ time[i] >= start_time))
        /\ (end_time # NoTime => (time[i] # NaN /\ time[i] <= end_time))]

(* valid = ~np.isnan(y) & ~np.isnan(t) *)
ValidMask(t, y) == [i \in 1..Len(t) |-> y[i] # NaN /\ t[i] # NaN]

(* Variant: the last 2^n_exp points are kept. *)
TruncateFromEnd(s, n_exp) ==
    IF n_exp = NoExp THEN s
    ELSE SubSeq(s, Len(s) - Min({Pow2(n_exp), Len(s)}) + 1, Len(s))

(* t[:min(2**n_exp, len(y))] when n_exp is given *)
Truncate(s, n_exp) ==
    IF n_exp = NoExp THEN s
    ELSE SubSeq(s, 1, Min({Pow2(n_exp), Len(s)}))

Raised(error) == [error |-> error, t |-> <<>>, y |-> <<>>]

(* Slicing, nan removal, length check and truncation shared by the two     *)
(* functions; the result holds the samples the transform is called with.   *)
Preprocess(data, start_time, end_time, n_exp) ==
    LET mask == TimeMask(data.time, start_time, end_time)
        t0 == SelectSeq2(data.time, mask)
        y0 == SelectSeq2(data.value, mask)
        valid == ValidMask(t0, y0)
        t == SelectSeq2(t0, valid)
        y == SelectSeq2(y0, valid)
    IN IF Len(t) < 2 THEN Raised("insufficient")
       ELSE [error |-> "none", t |-> Truncate(t, n_exp), y |-> Truncate(y, n_exp)]

(* tools/phase_analysis.py compute_phase_fft on a data frame: the error it *)
(* raises ("none" when it returns) and the samples perform_phase_fft gets. *)
PhaseSamples(data, start_time, end_time, n_exp) ==
    IF data.time = <<>> THEN Raised("empty")
    ELSE IF ~data.has_columns THEN Raised("key")
    ELSE IF ~data.numeric THEN Raised("type")
    ELSE Preprocess(data, start_time, end_time, n_exp)

(* tools/fft_analysis.py compute_fft (averaging "None") on a data frame:   *)
(* it has no check of its own for an empty or non-numeric frame, so a      *)
(* frame without columns raises KeyError and np.isnan (or the comparison   *)
(* with the time bounds) raises TypeError on an object column.             *)
compute_fft(df, start_time, end_time, n_exp) ==
    IF ~df.has_columns THEN Raised("key")
    ELSE IF ~df.numeric THEN Raised("type")
    ELSE Preprocess(df, start_time, end_time, n_exp)

(* The signal column of a loaded file; its transform is tabulated above. *)
SignalColumn(file, signal) == [i \in 1..8 |-> i]

compute_phase_fft(file, signal, start_time, end_time, n_exp) ==
    LET data == Frame(TRUE, TRUE, TimeColumn(file), SignalColumn(file, signal))
        samples == PhaseSamples(data, start_time, end_time, n_exp)
    IN IF samples.error # "none" THEN Failed
       ELSE perform_phase_fft(file, signal, samples.t)

-----------------------------------------------------------------------------
(* callbacks/phase_callbacks.py: calculate_phase_fft *)

RECURSIVE SeqOfSet(_)
SeqOfSet(S) == IF S = {} THEN <<>> ELSE <<Min(S)>> \o SeqOfSet(S \ {Min(S)})

RECURSIVE Concat(_)
Concat(ss) == IF ss = <<>> THEN <<>> ELSE Head(ss) \o Concat(Tail(ss))

TraceName(signal, file) == [signal |-> signal, file |-> file]

LegendName(file) == [signal |-> 0, file |-> file]

(* The (file, signal) pairs of one signal whose computation succeeded, in file order. *)
(* Variant: the first failing file ends the loop over the files. *)
FileResultsAbortOnFailure(signal, start_time, end_time, n_exp) ==
    LET ok(file) == compute_phase_fft(file, signal, start_time, end_time, n_exp).ok
        one(file) ==
            LET r == compute_phase_fft(file, signal, start_time, end_time, n_exp)
            IN IF \A g \in 1..file : ok(g)
               THEN <<[signal |-> signal, file |-> file, freq |-> r.freq,
                       mag |-> r.magnitude, phase |-> r.phase]>>
               ELSE <<>>
    IN Concat([file \in 1..NFiles |-> one(file)])

(* Lines 126-211: each file's computation sits in its own try block; a *)
(* failure prints the error and continues with the next file.          *)
FileResults(signal, start_time, end_time, n_exp) ==
    LET one(file) ==
            LET r == compute_phase_fft(file, signal, start_time, end_time, n_exp)
            IN IF r.ok THEN <<[signal |-> signal, file |-> file, freq |-> r.freq,
                               mag |-> r.magnitude, phase |-> r.phase]>>
               ELSE <<>>
    IN Concat([file \in 1..NFiles |-> one(file)])

RawEntry(r) ==
    [name |-> TraceName(r.signal, r.file), freq |-> r.freq, mag |-> r.mag, phase |-> r.phase]

(* The two traces a result adds to its figure: magnitude (row 1), then phase (row 2). *)
FigureTraces(r, name) ==
    << [name |-> name, xaxis |-> "x", yaxis |-> "y", x |-> r.freq, y |-> r.mag],
       [name |-> name, xaxis |-> "x2", yaxis |-> "y2", x |-> r.freq, y |-> r.phase] >>

Figure(results, overlay) ==
    [data |-> Concat([i \in 1..Len(results) |->
                 FigureTraces(results[i],
                     IF overlay THEN TraceName(results[i].signal, results[i].file)
                     ELSE LegendName(results[i].file))])]

(* The figure and the raw data calculate_phase_fft returns: <<>> is None / {}. *)
PhaseFFTStores(signals, plot_style, start_time, end_time, n_exp) ==
    LET sigs == SeqOfSet(signals)
        perSignal == [i \in 1..Len(sigs) |-> FileResults(sigs[i], start_time, end_time, n_exp)]
        all == Concat(perSignal)
        raw == [i \in 1..Len(all) |-> RawEntry(all[i])]
    IN IF signals = {}
       THEN [figure |-> <<>>, raw |-> <<>>]
       ELSE IF plot_style = "overlay"
       THEN [figure |-> <<Figure(all, TRUE)>>, raw |-> raw]
       ELSE LET panels == SelectSeq(perSignal, LAMBDA fr : fr # <<>>)
            IN IF panels = <<>>
               THEN [figure |-> <<>>, raw |-> <<>>]
               ELSE [figure |-> <<Figure(panels[1], FALSE)>>, raw |-> raw]

(* Variant: a recalculation hands back an empty peak collection. *)
CalculateDropsPeaks(stores, existing_peaks) ==
    [figure |-> stores.figure, peaks |-> <<>>, raw |-> stores.raw]

(* Every return path hands the selected peaks back as they came in *)
(* (existing_peaks, or dash.no_update).                            *)
calculate_phase_fft(stores, existing_peaks) ==
    [figure |-> stores.figure, peaks |-> existing_peaks, raw |-> stores.raw]

-----------------------------------------------------------------------------
(* callbacks/phase_callbacks.py: select_peak_from_click *)

EmptyLabel == -1

(* f"{freq:.4f}": the frequency rounded to 1e-4 Hz (three frequency units). *)
FrequencyLabel(freq) == (freq + 1) \div 3

GetLabel(peak) ==
    IF "frequency_label" \in DOMAIN peak THEN peak.frequency_label ELSE EmptyLabel

(* Python's order of trace names: bare legend names first, then by signal and file. *)
TraceRank(name) == name.signal * (NFiles + 1) + name.file

(* np.argmin(np.abs(freq_array - freq)): the first index of the least distance. *)
ArgMinAbs(freq_array, freq) ==
    CHOOSE i \in 1..Len(freq_array) :
        /\ \A j \in 1..Len(freq_array) : Abs(freq_array[i] - freq) <= Abs(freq_array[j] - freq)
        /\ \A j \in 1..(i - 1) : Abs(freq_array[j] - freq) > Abs(freq_array[i] - freq)

(* abs(matched - freq) / freq > 0.01 in floating point: 0/0 is nan (not *)
(* greater), d/0 is inf (greater).                                       *)
(* Variant: a tolerance of 10% instead of 1%. *)
OutOfToleranceTenPercent(matched, freq) ==
    IF freq = 0 THEN matched # 0 ELSE 10 * Abs(matched - freq) > freq

OutOfTolerance(matched, freq) ==
    IF freq = 0 THEN matched # 0 ELSE 100 * Abs(matched - freq) > freq

(* The name of the clicked curve, <<>> when it cannot be determined. *)
ClickedTraceName(point, figures) ==
    LET fig == figures[1]
        n == Len(fig.data)
        mag_trace_count == Cardinality({i \in 1..n : fig.data[i].yaxis = "y"})
        curve_number == point.curveNumber
    IN IF point.yaxis = "y2"
       THEN IF curve_number >= 0 /\ curve_number < n - mag_trace_count
            THEN <<fig.data[mag_trace_count + curve_number + 1].name>>
            ELSE <<>>
       ELSE IF curve_number >= 0 /\ curve_number < n
            THEN <<fig.data[curve_number + 1].name>>
            ELSE <<>>

(* Variant: the phase is read one sample away from the matched one. *)
TracePeakPhaseOffByOne(trace, freq) ==
    IF trace.freq = <<>> THEN <<>>
    ELSE LET idx == ArgMinAbs(trace.freq, freq)
             other == IF idx < Len(trace.phase) THEN idx + 1 ELSE idx - 1
         IN IF OutOfTolerance(trace.freq[idx], freq) THEN <<>>
            ELSE IF trace.mag[idx] = NaN \/ trace.phase[idx] = NaN THEN <<>>
            ELSE <<[frequency |-> trace.freq[idx],
                    magnitude |-> trace.mag[idx],
                    phase |-> trace.phase[other],
                    trace |-> trace.name,
                    frequency_label |-> FrequencyLabel(freq)]>>

(* The record of one cached trace at the clicked frequency, or none. *)
TracePeak(trace, freq) ==
    IF trace.freq = <<>> THEN <<>>
    ELSE LET idx == ArgMinAbs(trace.freq, freq)
         IN IF OutOfTolerance(trace.freq[idx], freq) THEN <<>>
            ELSE IF trace.mag[idx] = NaN \/ trace.phase[idx] = NaN THEN <<>>
            ELSE <<[frequency |-> trace.freq[idx],
                    magnitude |-> trace.mag[idx],
                    phase |-> trace.phase[idx],
                    trace |-> trace.name,
                    frequency_label |-> FrequencyLabel(freq)]>>

(* Variant: the loop over the cached traces stops at the first match. *)
NewPeaksFirstMatch(raw, freq) ==
    LET all == Concat([i \in 1..Len(raw) |-> TracePeak(raw[i], freq)])
    IN IF all = <<>> THEN <<>> ELSE <<all[1]>>

NewPeaks(raw, freq) == Concat([i \in 1..Len(raw) |-> TracePeak(raw[i], freq)])

(* list.sort(key=magnitude, reverse=True): stable, descending. *)
InsertByMagnitudeDesc(sorted, e) ==
    LET later == {i \in 1..Len(sorted) : sorted[i].magnitude < e.magnitude}
        pos == IF later = {} THEN Len(sorted) + 1 ELSE Min(later)
    IN SubSeq(sorted, 1, pos - 1) \o <<e>> \o SubSeq(sorted, pos, Len(sorted))

RECURSIVE SortByMagnitudeDesc(_)
SortByMagnitudeDesc(s) ==
    IF s = <<>> THEN <<>>
    ELSE InsertByMagnitudeDesc(SortByMagnitudeDesc(SubSeq(s, 1, Len(s) - 1)), s[Len(s)])

PeakKeyLess(a, b) ==
    \/ a.frequency < b.frequency
    \/ a.frequency = b.frequency /\ TraceRank(a.trace) < TraceRank(b.trace)

(* list.sort(key=(frequency, trace)): stable, ascending. *)
InsertByFrequencyTrace(sorted, e) ==
    LET later == {i \in 1..Len(sorted) : PeakKeyLess(e, sorted[i])}
        pos == IF later = {} THEN Len(sorted) + 1 ELSE Min(later)
    IN SubSeq(sorted, 1, pos - 1) \o <<e>> \o SubSeq(sorted, pos, Len(sorted))

(* Variant: no final sort. *)
KeepOrder(s) == s

(* Variant: the final sort is keyed by the frequency alone. *)
SortByFrequencyOnly(s) ==
    LET freqs == SeqOfSet({s[i].frequency : i \in 1..Len(s)})
    IN Concat([k \in 1..Len(freqs) |->
                   SelectSeq(s, LAMBDA peak : peak.frequency = freqs[k])])

RECURSIVE SortByFrequencyTrace(_)
SortByFrequencyTrace(s) ==
    IF s = <<>> THEN <<>>
    ELSE InsertByFrequencyTrace(SortByFrequencyTrace(SubSeq(s, 1, Len(s) - 1)), s[Len(s)])

(* Variant: the group of this label is not dropped. *)
ReplaceGroupKeepOld(peaks, new_peaks, frequency_label) == peaks \o new_peaks

(* Variant: only the old records of the traces in the new batch are dropped. *)
ReplaceGroupPerTrace(peaks, new_peaks, frequency_label) ==
    LET batch_traces == {new_peaks[i].trace : i \in 1..Len(new_peaks)}
    IN SelectSeq(peaks, LAMBDA peak : ~(GetLabel(peak) = frequency_label
                                        /\ peak.trace \in batch_traces))
       \o new_peaks

(* Lines 866-882: drop the group of this label, then append the new batch. *)
ReplaceGroup(peaks, new_peaks, frequency_label) ==
    LET existing_freq_labels == {GetLabel(peaks[i]) : i \in 1..Len(peaks)}
        kept == IF frequency_label \in existing_freq_labels
                THEN SelectSeq(peaks, LAMBDA peak : GetLabel(peak) # frequency_label)
                ELSE peaks
    IN kept \o new_peaks

(* outcome: "no_trace" (line 809), "no_match" (line 861), and at line 891  *)
(* "replaced" when the label's group existed (line 875), else "inserted".  *)
select_peak_from_click(point, raw, figures, existing_peaks) ==
    IF ClickedTraceName(point, figures) = <<>>
    THEN [outcome |-> "no_trace", peaks |-> existing_peaks]
    ELSE LET freq == point.x
             new_peaks == NewPeaks(raw, freq)
         IN IF new_peaks = <<>>
            THEN [outcome |-> "no_match", peaks |-> existing_peaks]
            ELSE [outcome |-> IF \E i \in 1..Len(existing_peaks) :
                                     GetLabel(existing_peaks[i]) = FrequencyLabel(freq)
                              THEN "replaced" ELSE "inserted",
                  peaks |-> SortByFrequencyTrace(
                               ReplaceGroup(existing_peaks,
                                            SortByMagnitudeDesc(new_peaks),
                                            FrequencyLabel(freq)))]

-----------------------------------------------------------------------------
(* tools/phase_analysis.py: find_peaks (scipy.signal.find_peaks with a     *)
(* prominence condition)                                                   *)

(* _local_maxima_1d: the midpoint of every plateau that rises on its left  *)
(* and falls on its right; the two end samples are never maxima.           *)
LocalMaxima(y) ==
    LET n == Len(y)
        plateauEnd(i) == Max({j \in i..n : \A k \in i..j : y[k] = y[i]})
        starts == {i \in 2..(n - 1) :
                      /\ y[i - 1] < y[i]
                      /\ plateauEnd(i) < n
                      /\ y[plateauEnd(i) + 1] < y[i]}
    IN SeqOfSet({(i + plateauEnd(i)) \div 2 : i \in starts})

(* _peak_prominences with wlen = None *)
Prominence(y, peak) ==
    LET n == Len(y)
        leftStop == Max({0} \cup {i \in 1..peak : y[i] > y[peak]})
        rightStop == Min({n + 1} \cup {i \in peak..n : y[i] > y[peak]})
        left_min == Min({y[i] : i \in (leftStop + 1)..peak})
        right_min == Min({y[i] : i \in peak..(rightStop - 1)})
    IN y[peak] - Max({left_min, right_min})

(* signal.find_peaks(magnitude, prominence=prominence) *)
SignalFindPeaks(magnitude, prominence) ==
    LET maxima == LocalMaxima(magnitude)
    IN IF prominence = NoProminence THEN maxima
       ELSE SelectSeq(maxima, LAMBDA p : Prominence(magnitude, p) >= prominence)

(* Variant: the frequency is read one sample after the peak. *)
FindPeaksFrequencyOfNextSample(freq, magnitude, prominence) ==
    LET peaks == SignalFindPeaks(magnitude, prominence)
    IN IF Len(freq) # Len(magnitude)
       THEN [error |-> "value", indices |-> <<>>, frequencies |-> <<>>, magnitudes |-> <<>>]
       ELSE [error |-> "none",
             indices |-> peaks,
             frequencies |-> [i \in 1..Len(peaks) |-> freq[peaks[i] + 1]],
             magnitudes |-> [i \in 1..Len(peaks) |-> magnitude[peaks[i]]]]

(* error "value" is the ValueError of line 168; indices count from 1. *)
find_peaks(freq, magnitude, prominence) ==
    IF Len(freq) # Len(magnitude)
    THEN [error |-> "value", indices |-> <<>>, frequencies |-> <<>>, magnitudes |-> <<>>]
    ELSE IF Len(freq) = 0
    THEN [error |-> "none", indices |-> <<>>, frequencies |-> <<>>, magnitudes |-> <<>>]
    ELSE LET peaks == SignalFindPeaks(magnitude, prominence)
         IN [error |-> "none",
             indices |-> peaks,
             frequencies |-> [i \in 1..Len(peaks) |-> freq[peaks[i]]],
             magnitudes |-> [i \in 1..Len(peaks) |-> magnitude[peaks[i]]]]

-----------------------------------------------------------------------------
(* callbacks/phase_callbacks.py: detect_peaks *)

HasNaN(y) == \E i \in 1..Len(y) : y[i] = NaN

(* np.max(y) > max_peak_height is False when y holds a nan. *)
MaxOf(y) == Max({y[i] : i \in 1..Len(y)})

(* Variant: the first usable magnitude trace, whatever its maximum. *)
FirstUsableTrace(magnitude_traces) ==
    LET usable == {i \in 1..Len(magnitude_traces) :
                      LET tr == magnitude_traces[i]
                      IN tr.x # <<>> /\ tr.y # <<>> /\ ~HasNaN(tr.y) /\ MaxOf(tr.y) > 0}
    IN IF usable = {} THEN <<>> ELSE <<magnitude_traces[Min(usable)]>>

(* The first magnitude trace with the greatest maximum above 0, <<>> if none. *)
BestTrace(magnitude_traces) ==
    LET usable == {i \in 1..Len(magnitude_traces) :
                      LET tr == magnitude_traces[i]
                      IN tr.x # <<>> /\ tr.y # <<>> /\ ~HasNaN(tr.y) /\ MaxOf(tr.y) > 0}
        best == {i \in usable : \A j \in usable :
                      \/ MaxOf(magnitude_traces[i].y) > MaxOf(magnitude_traces[j].y)
                      \/ (MaxOf(magnitude_traces[i].y) = MaxOf(magnitude_traces[j].y) /\ i <= j)}
    IN IF usable = {} THEN <<>> ELSE <<magnitude_traces[Min(best)]>>

InsertByFrequency(sorted, e) ==
    LET later == {i \in 1..Len(sorted) : e.frequency < sorted[i].frequency}
        pos == IF later = {} THEN Len(sorted) + 1 ELSE Min(later)
    IN SubSeq(sorted, 1, pos - 1) \o <<e>> \o SubSeq(sorted, pos, Len(sorted))

RECURSIVE SortByFrequency(_)
SortByFrequency(s) ==
    IF s = <<>> THEN <<>>
    ELSE InsertByFrequency(SortByFrequency(SubSeq(s, 1, Len(s) - 1)), s[Len(s)])

(* Variant: the peaks of every usable magnitude trace are recorded. *)
DetectOnEveryTrace(figures, prominence) ==
    LET fig == figures[1]
        magnitude_traces == SelectSeq(fig.data, LAMBDA tr : tr.xaxis = "x" /\ tr.yaxis = "y")
        usable == SelectSeq(magnitude_traces,
                      LAMBDA tr : tr.x # <<>> /\ tr.y # <<>> /\ ~HasNaN(tr.y) /\ MaxOf(tr.y) > 0)
        one(tr) == LET peaks == find_peaks(tr.x, tr.y, prominence)
                   IN [i \in 1..Len(peaks.frequencies) |->
                         [frequency |-> peaks.frequencies[i],
                          magnitude |-> peaks.magnitudes[i],
                          phase |-> 0,
                          trace |-> tr.name]]
    IN SortByFrequency(Concat([k \in 1..Len(usable) |-> one(usable[k])]))

detect_peaks(figures, prominence) ==
    LET fig == figures[1]
        magnitude_traces == SelectSeq(fig.data, LAMBDA tr : tr.xaxis = "x" /\ tr.yaxis = "y")
        phase_traces == SelectSeq(fig.data, LAMBDA tr : tr.xaxis = "x2" /\ tr.yaxis = "y2")
        best == BestTrace(magnitude_traces)
    IN IF best = <<>> THEN <<>>
       ELSE LET best_trace == best[1]
                peaks == find_peaks(best_trace.x, best_trace.y, prominence)
                matching == SelectSeq(phase_traces,
                               LAMBDA tr : tr.name = best_trace.name /\ tr.x # <<>> /\ tr.y # <<>>)
            IN IF matching = <<>> THEN <<>>
               ELSE LET phase_trace == matching[1]
                        peak_data == [i \in 1..Len(peaks.frequencies) |->
                            [frequency |-> peaks.frequencies[i],
                             magnitude |-> peaks.magnitudes[i],
                             phase |-> phase_trace.y[ArgMinAbs(phase_trace.x,
                                                               peaks.frequencies[i])],
                             trace |-> best_trace.name]]
                    IN SortByFrequency(peak_data)

-----------------------------------------------------------------------------
(* callbacks/phase_callbacks.py: remove_peak *)

(* Variant: list.pop() without the index, removing the last record. *)
RemoveLastPeak(index, peaks) ==
    IF index >= Len(peaks) THEN peaks ELSE SubSeq(peaks, 1, Len(peaks) - 1)

(* index >= len(peaks) raises PreventUpdate: the store keeps its value; *)
(* otherwise new_peaks.pop(index) on a copy.                            *)
remove_peak(index, peaks) ==
    IF index >= Len(peaks) THEN peaks
    ELSE SubSeq(peaks, 1, index) \o SubSeq(peaks, index + 2, Len(peaks))

-----------------------------------------------------------------------------
(* State machine of the phase/magnitude tab.  last records the handler     *)
(* that ran last, the clicked frequency, the path the handler took and     *)
(* whether it changed the collection.                                      *)

NoFreq == -1

Record(op, x, outcome, changed) ==
    [op |-> op, x |-> x, outcome |-> outcome, changed |-> changed]

PeakInit ==
    /\ raw_data = <<>>
    /\ current_phase_figure = <<>>
    /\ selected_peaks = <<>>
    /\ last = Record("init", NoFreq, "none", FALSE)

(* The stores of every input the Calculate button can be pressed with. *)
CalculateCalls ==
    [signals : SignalChoices, plot_style : PlotStyles,
     end_time : EndTimeChoices, n_exp : NExpChoices]

CalculateOutcomes ==
    {[call |-> c,
      stores |-> PhaseFFTStores(c.signals, c.plot_style, NoTime, c.end_time, c.n_exp)] :
        c \in CalculateCalls}

CalculatePhaseFFT ==
    \E o \in CalculateOutcomes :
        LET out == calculate_phase_fft(o.stores, selected_peaks)
        IN /\ current_phase_figure' = out.figure
           /\ selected_peaks' = out.peaks
           /\ raw_data' = out.raw
           /\ last' = Record("calculate", o.call, "none", out.peaks # selected_peaks)

DetectPeaks ==
    /\ current_phase_figure # <<>>
    /\ \E prominence \in ProminenceChoices :
        /\ selected_peaks' = detect_peaks(current_phase_figure, prominence)
        /\ last' = Record("detect", NoFreq, "none", selected_peaks' # selected_peaks)
    /\ UNCHANGED <<raw_data, current_phase_figure>>

(* clickData points: any frequency on the x axis, on any curve of the stored *)
(* figure; the point carries the y axis of the subplot the curve is drawn in. *)
ClickPoints ==
    LET data == current_phase_figure[1].data
    IN {[x |-> x, curveNumber |-> c, yaxis |-> data[c + 1].yaxis] :
            x \in ClickFrequencies, c \in 0..(Len(data) - 1)}

SelectPeakFromClick ==
    /\ current_phase_figure # <<>>
    /\ raw_data # <<>>
    /\ \E point \in ClickPoints :
        LET out == select_peak_from_click(point, raw_data, current_phase_figure,
                                          selected_peaks)
        IN /\ Len(out.peaks) <= MaxPeaks
           /\ selected_peaks' = out.peaks
           /\ last' = Record("click", point.x, out.outcome, out.peaks # selected_peaks)
    /\ UNCHANGED <<raw_data, current_phase_figure>>

RemovePeak ==
    /\ selected_peaks # <<>>
    /\ \E index \in 0..Len(selected_peaks) :
        /\ selected_peaks' = remove_peak(index, selected_peaks)
        /\ last' = Record("remove", <<index, selected_peaks>>,
                          IF index >= Len(selected_peaks) THEN "prevented" ELSE "none",
                          selected_peaks' # selected_peaks)
    /\ UNCHANGED <<raw_data, current_phase_figure>>

ClearPeaks ==
    /\ selected_peaks' = <<>>
    /\ last' = Record("clear", NoFreq, "none", selected_peaks # <<>>)
    /\ UNCHANGED <<raw_data, current_phase_figure>>

-----------------------------------------------------------------------------
(* callbacks/annotation_callbacks.py *)

MaxAnnoSteps == 3

Annotation(freq, label) == [freq |-> freq, label |-> label]

InsertByFreq(sorted, e) ==
    LET later == {i \in 1..Len(sorted) : e.freq < sorted[i].freq}
        pos == IF later = {} THEN Len(sorted) + 1 ELSE Min(later)
    IN SubSeq(sorted, 1, pos - 1) \o <<e>> \o SubSeq(sorted, pos, Len(sorted))

(* list.sort(key=freq): stable, ascending. *)
(* Variant: the list is left in the order of its appends. *)
KeepAnnotationOrder(s) == s

RECURSIVE SortByFreq(_)
SortByFreq(s) ==
    IF s = <<>> THEN <<>>
    ELSE InsertByFreq(SortByFreq(SubSeq(s, 1, Len(s) - 1)), s[Len(s)])

(* generate_rotor_harmonics *)

(* Variant: every order from 1 to 9. *)
FirstNineOrders == <<1, 2, 3, 4, 5, 6, 7, 8, 9>>

harmonics == <<1, 2, 3, 4, 6, 8, 9>>

RpmToHz(rpm_value) == rpm_value \div 2

HarmonicLabel(i) == <<"1P", "2P", "3P", "4P", "5P", "6P", "7P", "8P", "9P">>[i]

(* abs(a - b) < 0.001 *)
WithinTolerance(a, b) == 2 * Abs(a - b) < 5

(* Variant: an annotation at the frequency counts whatever its label. *)
HarmonicExistsAtFrequency(annotations, harmonic_freq, harmonic_label) ==
    \E k \in 1..Len(annotations) :
        WithinTolerance(annotations[k].freq, harmonic_freq)

HarmonicExists(annotations, harmonic_freq, harmonic_label) ==
    \E k \in 1..Len(annotations) :
        /\ WithinTolerance(annotations[k].freq, harmonic_freq)
        /\ annotations[k].label = harmonic_label

RECURSIVE AppendHarmonics(_, _, _)
AppendHarmonics(new_annotations, freq_1p, n) ==
    IF n > Len(harmonics) THEN new_annotations
    ELSE LET i == harmonics[n]
             harmonic_freq == freq_1p * i
             harmonic_label == HarmonicLabel(i)
         IN AppendHarmonics(
                IF HarmonicExists(new_annotations, harmonic_freq, harmonic_label)
                THEN new_annotations
                ELSE Append(new_annotations, Annotation(harmonic_freq, harmonic_label)),
                freq_1p, n + 1)

generate_rotor_harmonics(rpm_value, current_annotations) ==
    SortByFreq(AppendHarmonics(current_annotations, RpmToHz(rpm_value), 1))

(* manage_fft_annotations: the texts are given as their comma-separated tokens *)

StripToken(token) ==
    CASE token = " 1.0" -> "1.0"
      [] token = " " -> ""
      [] OTHER -> token

(* Variant: every token is taken for a number. *)
IsFloatAnything(token) == TRUE

IsFloat(token) == token \in {"1.0", "3.0", "1.0004"}

FloatOf(token) ==
    CASE token = "1.0" -> 2500
      [] token = "3.0" -> 7500
      [] OTHER -> 2501

(* Variant: the automatic labels count from the first missing label. *)
AutoLabelShifted(n) == <<"F0", "F1", "F2">>[n]

AutoLabel(n) == <<"F1", "F2", "F3">>[n]

manage_fft_annotations(freq_input, label_input, current_annotations) ==
    LET tokens == SelectSeq([k \in 1..Len(freq_input) |-> StripToken(freq_input[k])],
                            LAMBDA t : t # "")
        valid == \A k \in 1..Len(tokens) : IsFloat(tokens[k])
        freqs == [k \in 1..Len(tokens) |-> FloatOf(tokens[k])]
        given == IF label_input = <<>> THEN <<>>
                 ELSE [k \in 1..Len(label_input) |-> StripToken(label_input[k])]
        labels == given \o [k \in 1..(IF Len(given) < Len(freqs)
                                      THEN Len(freqs) - Len(given) ELSE 0) |->
                               AutoLabel(Len(given) + k)]
        added == [k \in 1..Len(freqs) |-> Annotation(freqs[k], labels[k])]
    IN IF ~valid
       THEN [error |-> TRUE, saved |-> FALSE, annotations |-> current_annotations]
       ELSE [error |-> FALSE, saved |-> TRUE,
             annotations |-> SortByFreq(current_annotations \o added)]

remove_annotation(index_to_remove, current_annotations) ==
    SelectSeq2(current_annotations,
               [k \in 1..Len(current_annotations) |-> k - 1 # index_to_remove])

RpmChoices == {5000, 5002}
FreqTexts == {<<"3.0", " 1.0">>, <<"1.0004">>, <<"1.0", "abc">>, <<" ", "3.0">>}
LabelTexts == {<<>>, <<"1P">>, <<"SomeOther", "3P", "Extra">>}

AnnoRecord(op, arg, error, saved, before) ==
    [op |-> op, arg |-> arg, error |-> error, saved |-> saved, before |-> before]

AnnoInit ==
    /\ fft_annotations = <<>>
    /\ custom_annotations = <<>>
    /\ lastAnno = AnnoRecord("init", 0, FALSE, FALSE, <<>>)
    /\ annoSteps = 0

(* Every handler invocation counts against the bound on the run length. *)
AnnoStep ==
    /\ annoSteps < MaxAnnoSteps
    /\ annoSteps' = annoSteps + 1

AddAnnotation ==
    \E freq_input \in FreqTexts, label_input \in LabelTexts :
        LET out == manage_fft_annotations(freq_input, label_input, fft_annotations)
        IN /\ AnnoStep
           /\ fft_annotations' = out.annotations
           /\ custom_annotations' = IF out.saved THEN out.annotations ELSE custom_annotations
           /\ lastAnno' = AnnoRecord("add", <<freq_input, label_input>>, out.error,
                                    out.saved, fft_annotations)

TabSwitch ==
    /\ AnnoStep
    /\ fft_annotations' = fft_annotations
    /\ lastAnno' = AnnoRecord("tabs", 0, FALSE, FALSE, fft_annotations)
    /\ UNCHANGED custom_annotations

RemoveAnnotation ==
    \E index \in 0..Len(fft_annotations) :
        /\ AnnoStep
        /\ fft_annotations' = remove_annotation(index, fft_annotations)
        /\ custom_annotations' = fft_annotations'
        /\ lastAnno' = AnnoRecord("remove", index, FALSE, TRUE, fft_annotations)

GenerateRotorHarmonics ==
    \E rpm_value \in RpmChoices :
        LET out == generate_rotor_harmonics(rpm_value, fft_annotations)
        IN /\ AnnoStep
           /\ fft_annotations' = out
           /\ custom_annotations' = out
           /\ lastAnno' = AnnoRecord("harmonics", rpm_value, FALSE, TRUE, fft_annotations)

(* preference_callbacks.py: the store is loaded from the saved preferences. *)
InitializeFromPreferences ==
    /\ AnnoStep
    /\ fft_annotations' = custom_annotations
    /\ lastAnno' = AnnoRecord("load", 0, FALSE, FALSE, fft_annotations)
    /\ UNCHANGED custom_annotations

(* No direct call of the transform functions is under way. *)
NoCall == [data |-> Frame(FALSE, TRUE, <<>>, <<>>), start_time |-> NoTime,
           end_time |-> NoTime, n_exp |-> NoExp]

Pending == [fn |-> "none", error |-> "none", t |-> <<>>, y |-> <<>>]

FftIdle == fft_call = NoCall /\ fft_result = Pending

(* No trace key has been formed yet. *)
NoKeyCall == [signals |-> <<>>, file_identifiers |-> <<>>]

KeyIdle == key_call = NoKeyCall /\ key_pos = 0 /\ key_cache = {} /\ key_stored = {}

(* The parts of the state a specification leaves at rest. *)
-----------------------------------------------------------------------------
(* user_preferences.py: the preferences file and the operations on it.  A  *)
(* section's content is a token; saved_file_paths maps names to path lists *)
(* (tokens).  Every operation loads the whole file, changes its copy and   *)
(* writes the whole copy back; save_preferences succeeds.                  *)

Threads == {1, 2}

Names == {"a", "b"}

PathLists == {"p1", "p2"}

NoPaths == [x \in {} |-> "p1"]

DEFAULT_PREFERENCES ==
    [favorite_signals |-> "default", custom_annotations |-> "default",
     saved_file_paths |-> NoPaths, fft_settings |-> "default",
     plot_settings |-> "default"]

Put(m, k, v) == [x \in (DOMAIN m) \cup {k} |-> IF x = k THEN v ELSE m[x]]

Del(m, k) == [x \in (DOMAIN m) \ {k} |-> m[x]]

Op(kind, name, value) == [kind |-> kind, name |-> name, value |-> value]

NoOp == Op("none", "", "")

(* The operations that write one section with a new content. *)
SectionSaves ==
    {Op(kind, "", "new") : kind \in {"update_favorite_signals", "save_fft_settings",
                                     "save_custom_annotations", "save_plot_settings"}}
    \cup {Op("save_file_path_set", name, paths) : name \in Names, paths \in PathLists}

PathSetOps ==
    {Op("delete_saved_file_path_set", name, "") : name \in Names}
    \cup {Op("rename_saved_file_path_set", old_name, new_name) :
              old_name \in Names, new_name \in Names}

Written(preferences, result) ==
    [write |-> TRUE, preferences |-> preferences, result |-> result]

NotWritten(preferences) ==
    [write |-> FALSE, preferences |-> preferences, result |-> FALSE]

(* Lines 246-267, on the loaded preferences. *)
rename_saved_file_path_set(preferences, old_name, new_name) ==
    IF old_name \in DOMAIN preferences.saved_file_paths
    THEN LET file_paths == preferences.saved_file_paths[old_name]
             put == Put(preferences.saved_file_paths, new_name, file_paths)
         IN Written([preferences EXCEPT !.saved_file_paths = Del(put, old_name)], TRUE)
    ELSE NotWritten(preferences)

(* Lines 226-243, on the loaded preferences. *)
delete_saved_file_path_set(preferences, name) ==
    IF name \in DOMAIN preferences.saved_file_paths
    THEN Written([preferences EXCEPT !.saved_file_paths = Del(@, name)], TRUE)
    ELSE NotWritten(preferences)

(* What an operation does to the preferences it loaded. *)
ApplyOp(op, preferences) ==
    CASE op.kind = "update_favorite_signals" ->
            Written([preferences EXCEPT !.favorite_signals = op.value], TRUE)
      [] op.kind = "save_fft_settings" ->
            Written([preferences EXCEPT !.fft_settings = op.value], TRUE)
      [] op.kind = "save_custom_annotations" ->
            Written([preferences EXCEPT !.custom_annotations = op.value], TRUE)
      [] op.kind = "save_plot_settings" ->
            Written([preferences EXCEPT !.plot_settings = op.value], TRUE)
      [] op.kind = "save_file_path_set" ->
            Written([preferences EXCEPT !.saved_file_paths = Put(@, op.name, op.value)], TRUE)
      [] op.kind = "delete_saved_file_path_set" ->
            delete_saved_file_path_set(preferences, op.name)
      [] op.kind = "rename_saved_file_path_set" ->
            rename_saved_file_path_set(preferences, op.name, op.value)

MaxPrefsOps == 3

Idle == [pc |-> "idle", op |-> NoOp, local |-> DEFAULT_PREFERENCES, finished |-> NoOp]

PrefsRecord(thread, op, result, loaded, before) ==
    [thread |-> thread, op |-> op, result |-> result, loaded |-> loaded, before |-> before]

PrefsInit ==
    /\ prefs_file = DEFAULT_PREFERENCES
    /\ prefs_threads = [t \in Threads |-> Idle]
    /\ prefs_ops = 0
    /\ lastPrefs = PrefsRecord(0, NoOp, FALSE, DEFAULT_PREFERENCES, DEFAULT_PREFERENCES)

(* preferences = load_preferences() *)
LoadPreferences(t, op) ==
    /\ prefs_threads[t].pc = "idle"
    /\ prefs_ops < MaxPrefsOps
    /\ prefs_ops' = prefs_ops + 1
    /\ prefs_threads' = [prefs_threads EXCEPT ![t] =
                            [pc |-> "loaded", op |-> op, local |-> prefs_file,
                             finished |-> @.finished]]
    /\ UNCHANGED <<prefs_file, lastPrefs>>

(* The change of the loaded copy and save_preferences(preferences). *)
SavePreferences(t) ==
    /\ prefs_threads[t].pc = "loaded"
    /\ LET op == prefs_threads[t].op
           out == ApplyOp(op, prefs_threads[t].local)
       IN /\ prefs_file' = IF out.write THEN out.preferences ELSE prefs_file
          /\ lastPrefs' = PrefsRecord(t, op, out.result, prefs_threads[t].local, prefs_file)
          /\ prefs_threads' = [prefs_threads EXCEPT ![t] =
                                  [pc |-> "idle", op |-> NoOp,
                                   local |-> DEFAULT_PREFERENCES, finished |-> op]]
    /\ UNCHANGED prefs_ops

(* One request at a time. *)
PrefsNext ==
    \/ (\E op \in SectionSaves \cup PathSetOps : LoadPreferences(1, op))
          /\ UNCHANGED notPrefsVars
    \/ SavePreferences(1) /\ UNCHANGED notPrefsVars

(* Two requests served by two threads, one operation each. *)
RaceNext ==
    \/ (\E t \in Threads : \E op \in SectionSaves :
            prefs_threads[t].finished = NoOp /\ LoadPreferences(t, op))
          /\ UNCHANGED notPrefsVars
    \/ (\E t \in Threads : SavePreferences(t)) /\ UNCHANGED notPrefsVars

OrderRecord(op, index, before) ==
    [op |-> op, index |-> index, before |-> before]

(* No files loaded: the file-order store holds the empty list. *)
OrderInit ==
    /\ loaded_files = <<>>
    /\ file_order = <<>>
    /\ lastOrder = OrderRecord("none", 0, <<>>)

NoToolCall == [fn |-> "none"]

ToolIdle == tool_call = NoToolCall /\ tool_result = NoToolCall

DirectIdle == FftIdle /\ KeyIdle /\ ToolIdle

Init == PeakInit /\ AnnoInit /\ DirectIdle /\ PrefsInit /\ OrderInit

PrefsSpec == Init /\ [][PrefsNext]_vars

RaceSpec == Init /\ [][RaceNext]_vars

Next ==
    \/ CalculatePhaseFFT /\ UNCHANGED notPeakVars
    \/ DetectPeaks /\ UNCHANGED notPeakVars
    \/ SelectPeakFromClick /\ UNCHANGED notPeakVars
    \/ RemovePeak /\ UNCHANGED notPeakVars
    \/ ClearPeaks /\ UNCHANGED notPeakVars

Spec == Init /\ [][Next]_vars

AnnoNext ==
    \/ AddAnnotation /\ UNCHANGED notAnnoVars
    \/ TabSwitch /\ UNCHANGED notAnnoVars
    \/ RemoveAnnotation /\ UNCHANGED notAnnoVars
    \/ GenerateRotorHarmonics /\ UNCHANGED notAnnoVars
    \/ InitializeFromPreferences /\ UNCHANGED notAnnoVars

AnnoSpec == Init /\ [][AnnoNext]_vars

-----------------------------------------------------------------------------
(* Direct calls of compute_fft and compute_phase_fft on a data frame *)

Frames ==
    { Frame(FALSE, TRUE, <<>>, <<>>),
      Frame(TRUE, TRUE, <<>>, <<>>),
      Frame(TRUE, TRUE, <<0>>, <<1>>),
      Frame(TRUE, FALSE, <<0, 10, 20>>, <<1, 2, 3>>),
      Frame(TRUE, TRUE, <<0, 10, 20, 30>>, <<5, 6, 7, 8>>),
      Frame(TRUE, TRUE, <<0, 10, 20, 30>>, <<5, NaN, 7, 8>>),
      Frame(TRUE, TRUE, <<0, NaN, 20, 30>>, <<5, 6, 7, 8>>),
      Frame(TRUE, TRUE, <<0, 10>>, <<NaN, 3>>),
      Frame(TRUE, TRUE, <<0, 10, 20, 30, 40>>, <<4, 5, 6, 7, 8>>) }

StartTimeChoices == {NoTime, 0, 10}
StopTimeChoices == {NoTime, 20, 30}
DirectNExpChoices == {NoExp, 0, 1, 2}

FftCalls ==
    [data : Frames, start_time : StartTimeChoices, end_time : StopTimeChoices,
     n_exp : DirectNExpChoices]

FftInit ==
    /\ PeakInit
    /\ AnnoInit
    /\ PrefsInit
    /\ OrderInit
    /\ fft_call \in FftCalls
    /\ fft_result = Pending
    /\ KeyIdle
    /\ ToolIdle

Returned(fn, out) == [fn |-> fn, error |-> out.error, t |-> out.t, y |-> out.y]

ComputeFFT ==
    /\ fft_result = Pending
    /\ fft_result' = Returned("compute_fft",
                         compute_fft(fft_call.data, fft_call.start_time,
                                     fft_call.end_time, fft_call.n_exp))
    /\ UNCHANGED fft_call

ComputePhaseFFT ==
    /\ fft_result = Pending
    /\ fft_result' = Returned("compute_phase_fft",
                         PhaseSamples(fft_call.data, fft_call.start_time,
                                      fft_call.end_time, fft_call.n_exp))
    /\ UNCHANGED fft_call

FftNext ==
    \/ ComputeFFT /\ UNCHANGED notFftVars
    \/ ComputePhaseFFT /\ UNCHANGED notFftVars

FftSpec == FftInit /\ [][FftNext]_vars

-----------------------------------------------------------------------------
(* callbacks/phase_callbacks.py: the keys of the raw-data cache.  A string *)
(* is the sequence of its parts between occurrences of " - ": a signal     *)
(* name is a column name of an OpenFAST output file, one part without      *)
(* blanks; a file identifier is a file name or a piece of a path and may   *)
(* hold " - " itself.                                                      *)

SignalNames == {<<"GenPwr">>, <<"RotSpeed">>}

FileIdentifiers == {<<"run">>, <<"GenPwr">>, <<"GenPwr", "run">>, <<"run", "GenPwr">>}

DistinctSeqs(S, n) ==
    UNION {{q \in [1..k -> S] : \A i, j \in 1..k : i # j => q[i] # q[j]} : k \in 1..n}

(* The chosen signals and the identifiers get_unique_identifiers gave the  *)
(* loaded files, one per file and all different.                           *)
KeyCalls ==
    [signals : DistinctSeqs(SignalNames, Cardinality(SignalNames)),
     file_identifiers : DistinctSeqs(FileIdentifiers, NFiles)]

(* Variant: the bare legend name of the separate plot style. *)
LegendKey(signal, file_name) == file_name

(* f"{signal} - {file_name}" *)
KeyOf(signal, file_name) == signal \o file_name

(* for signal in signals: for file_path in file_paths: the pair at position p. *)
PairSignal(call, p) == ((p - 1) \div Len(call.file_identifiers)) + 1
PairFile(call, p) == ((p - 1) % Len(call.file_identifiers)) + 1
PairCount(call) == Len(call.signals) * Len(call.file_identifiers)

(* raw_data[key] = entry: a dict keeps one entry per key, the latest. *)
DictStore(cache, key, entry) ==
    {e \in cache : e.key # key} \cup {[key |-> key, signal |-> entry.signal, file |-> entry.file]}

KeyInit ==
    /\ PeakInit
    /\ AnnoInit
    /\ PrefsInit
    /\ OrderInit
    /\ FftIdle
    /\ key_call \in KeyCalls
    /\ key_pos = 0
    /\ key_cache = {}
    /\ key_stored = {}
    /\ ToolIdle

(* The next pair's spectrum is computed and cached under its key. *)
StorePair ==
    /\ key_pos < PairCount(key_call)
    /\ LET p == key_pos + 1
           signal == PairSignal(key_call, p)
           file == PairFile(key_call, p)
       IN /\ key_cache' = DictStore(key_cache,
                               KeyOf(key_call.signals[signal], key_call.file_identifiers[file]),
                               [signal |-> signal, file |-> file])
          /\ key_stored' = key_stored \cup {p}
          /\ key_pos' = p
    /\ UNCHANGED key_call

(* The next pair's computation raises: the except block continues. *)
SkipPair ==
    /\ key_pos < PairCount(key_call)
    /\ key_pos' = key_pos + 1
    /\ UNCHANGED <<key_call, key_cache, key_stored>>

KeyNext ==
    \/ StorePair /\ UNCHANGED notKeyVars
    \/ SkipPair /\ UNCHANGED notKeyVars

KeySpec == KeyInit /\ [][KeyNext]_vars

-----------------------------------------------------------------------------
(* Index-based removal from both collections: the peak collection after    *)
(* one click on a calculated overlay figure, the annotation list after the *)
(* rotor harmonics were generated.                                         *)

RemovalInit ==
    /\ \E o \in CalculateOutcomes :
          /\ o.stores.raw # <<>>
          /\ o.stores.figure # <<>>
          /\ raw_data = o.stores.raw
          /\ current_phase_figure = o.stores.figure
          /\ \E x \in ClickFrequencies :
                \E out \in {select_peak_from_click([x |-> x, curveNumber |-> 0, yaxis |-> "y"],
                                                   o.stores.raw, o.stores.figure, <<>>)} :
                   /\ out.outcome = "inserted"
                   /\ Len(out.peaks) <= MaxPeaks
                   /\ selected_peaks = out.peaks
                   /\ last = Record("click", x, out.outcome, TRUE)
    /\ \E rpm_value \in RpmChoices :
          \E out \in {generate_rotor_harmonics(rpm_value, <<>>)} :
             /\ fft_annotations = out
             /\ custom_annotations = out
             /\ lastAnno = AnnoRecord("harmonics", rpm_value, FALSE, TRUE, <<>>)
             /\ annoSteps = 1
    /\ DirectIdle
    /\ PrefsInit
    /\ OrderInit

RemovalNext ==
    \/ RemovePeak /\ UNCHANGED notPeakVars
    \/ RemoveAnnotation /\ UNCHANGED notAnnoVars

RemovalSpec == RemovalInit /\ [][RemovalNext]_vars

-----------------------------------------------------------------------------
(* Direct calls of tools/phase_analysis.py: find_peaks *)

(* ---- The order of the loaded files (file_order_callbacks.py) ---- *)

MaxLoaded == 3

OrderPaths == {"f1", "f2", "f3", "f4"}

(* loaded_files["files"]: the loaded paths, each once. *)
LoadedChoices == {<<>>} \cup DistinctSeqs(OrderPaths, MaxLoaded)

(* file_path in some_list *)
In(x, list) == \E i \in 1..Len(list) : list[i] = x

(* Lines 56-58: the files of current_order that are still loaded. *)
StillLoaded(current_order, file_paths) ==
    SelectSeq(current_order, LAMBDA file_path : In(file_path, file_paths))

(* Lines 61-63: the loop appending the files not yet in file_order. *)
RECURSIVE AppendNew(_, _)
AppendNew(file_order_so_far, file_paths) ==
    IF file_paths = <<>> THEN file_order_so_far
    ELSE AppendNew(IF In(Head(file_paths), file_order_so_far)
                   THEN file_order_so_far
                   ELSE Append(file_order_so_far, Head(file_paths)),
                   Tail(file_paths))

(* Variant: the files no longer loaded stay in the order. *)
UpdateKeepingRemovedFiles(file_paths, current_order, trigger_id) ==
    IF file_paths = <<>> THEN <<>>
    ELSE IF trigger_id = "reset-file-order-btn" \/ current_order = <<>>
    THEN file_paths
    ELSE AppendNew(current_order, file_paths)

(* Lines 36-63 and the second value returned at line 115. *)
update_file_order_list(file_paths, current_order, trigger_id) ==
    IF file_paths = <<>> THEN <<>>
    ELSE IF trigger_id = "reset-file-order-btn" \/ current_order = <<>>
    THEN file_paths
    ELSE AppendNew(StillLoaded(current_order, file_paths), file_paths)

PreventUpdate(current_order) == [prevented |-> TRUE, order |-> current_order]

NewOrder(new_order) == [prevented |-> FALSE, order |-> new_order]

(* new_order[i], new_order[j] = new_order[j], new_order[i], indices from 0. *)
Swapped(order, i, j) ==
    [k \in 1..Len(order) |->
        IF k = i + 1 THEN order[j + 1] ELSE IF k = j + 1 THEN order[i + 1] ELSE order[k]]

(* Lines 126-144, for a click on the button of the given index. *)
move_file_up(index, current_order) ==
    IF current_order = <<>> THEN PreventUpdate(current_order)
    ELSE IF index <= 0 \/ index >= Len(current_order) THEN PreventUpdate(current_order)
    ELSE NewOrder(Swapped(current_order, index, index - 1))

(* Lines 155-173, for a click on the button of the given index. *)
move_file_down(index, current_order) ==
    IF current_order = <<>> THEN PreventUpdate(current_order)
    ELSE IF index < 0 \/ index >= Len(current_order) - 1 THEN PreventUpdate(current_order)
    ELSE NewOrder(Swapped(current_order, index, index + 1))

(* The indices a button can carry: those of a list of MaxLoaded files,    *)
(* which may have been drawn for more files than the order holds now, and *)
(* one below and one above them.                                          *)
ButtonIndices == -1..MaxLoaded

(* Files are loaded or removed: loaded-files changes and triggers         *)
(* update_file_order_list.                                                *)
UpdateFileOrderList(files) ==
    /\ files # loaded_files
    /\ loaded_files' = files
    /\ file_order' = update_file_order_list(files, file_order, "loaded-files")
    /\ lastOrder' = OrderRecord("update_file_order_list", 0, file_order)

(* A click on reset-file-order-btn triggers update_file_order_list. *)
ResetFileOrder ==
    /\ file_order' = update_file_order_list(loaded_files, file_order, "reset-file-order-btn")
    /\ lastOrder' = OrderRecord("reset", 0, file_order)
    /\ UNCHANGED loaded_files

(* A click on a move-up button; the new file-order then triggers          *)
(* update_file_order_list.                                                *)
MoveFileUp(index) ==
    LET out == move_file_up(index, file_order)
    IN /\ file_order' = IF out.prevented THEN file_order
                        ELSE update_file_order_list(loaded_files, out.order, "file-order")
       /\ lastOrder' = OrderRecord("move_file_up", index, file_order)
       /\ UNCHANGED loaded_files

(* A click on a move-down button; the new file-order then triggers        *)
(* update_file_order_list.                                                *)
MoveFileDown(index) ==
    LET out == move_file_down(index, file_order)
    IN /\ file_order' = IF out.prevented THEN file_order
                        ELSE update_file_order_list(loaded_files, out.order, "file-order")
       /\ lastOrder' = OrderRecord("move_file_down", index, file_order)
       /\ UNCHANGED loaded_files

OrderNext ==
    \/ (\E files \in LoadedChoices : UpdateFileOrderList(files)) /\ UNCHANGED notOrderVars
    \/ ResetFileOrder /\ UNCHANGED notOrderVars
    \/ (\E index \in ButtonIndices : MoveFileUp(index)) /\ UNCHANGED notOrderVars
    \/ (\E index \in ButtonIndices : MoveFileDown(index)) /\ UNCHANGED notOrderVars

OrderSpec == Init /\ [][OrderNext]_vars

MaxSamples == 5

SeqsUpTo(S, n) == UNION {[1..k -> S] : k \in 0..n}

MagnitudeLevels == {0, 1, 3}

(* Frequency axes of 0 to MaxSamples bins, 10 units apart. *)
FrequencyAxes == {[i \in 1..k |-> (i - 1) * 10] : k \in 0..MaxSamples}

FindPeaksCalls ==
    [fn : {"find_peaks"}, freq : FrequencyAxes,
     magnitude : SeqsUpTo(MagnitudeLevels, MaxSamples), prominence : ProminenceChoices]

FindPeaksInit ==
    /\ PeakInit
    /\ AnnoInit
    /\ PrefsInit
    /\ OrderInit
    /\ FftIdle
    /\ KeyIdle
    /\ tool_call \in FindPeaksCalls
    /\ tool_result = NoToolCall

FindPeaks ==
    /\ tool_call.fn = "find_peaks"
    /\ tool_result = NoToolCall
    /\ LET out == find_peaks(tool_call.freq, tool_call.magnitude, tool_call.prominence)
       IN tool_result' = [fn |-> "find_peaks", error |-> out.error, indices |-> out.indices,
                          frequencies |-> out.frequencies, magnitudes |-> out.magnitudes]
    /\ UNCHANGED tool_call

FindPeaksNext == FindPeaks /\ UNCHANGED notToolVars

FindPeaksSpec == FindPeaksInit /\ [][FindPeaksNext]_vars

-----------------------------------------------------------------------------
(* utils.py: get_unique_identifiers.  A path is the sequence of its        *)
(* components, each a single character, already normalised and relative;   *)
(* a string is the sequence of its characters, "/" being os.sep.           *)

RECURSIVE JoinParts(_)
JoinParts(parts) ==
    IF Len(parts) = 0 THEN <<>>
    ELSE IF Len(parts) = 1 THEN <<parts[1]>>
    ELSE JoinParts(SubSeq(parts, 1, Len(parts) - 1)) \o <<"/", parts[Len(parts)]>>

(* os.path.basename(path) *)
Basename(path) == <<path[Len(path)]>>

(* os.path.join(os.path.basename(os.path.dirname(path)), os.path.basename(path)) *)
ParentAndFilename(path) ==
    IF Len(path) >= 2 THEN <<path[Len(path) - 1], "/", path[Len(path)]>> ELSE Basename(path)

(* len(set(xs)) == len(xs) *)
AllDifferent(xs) == \A i, j \in 1..Len(xs) : i # j => xs[i] # xs[j]

MinLen(xs) == Min({Len(xs[i]) : i \in 1..Len(xs)})

(* The zero-based position of the first component that differs, or min_len. *)
FirstDiff(parts) ==
    LET differing == {d \in 0..(MinLen(parts) - 1) :
                         \E i, j \in 1..Len(parts) : parts[i][d + 1] # parts[j][d + 1]}
    IN IF differing = {} THEN MinLen(parts) ELSE Min(differing)

(* The negative position of the first component from the end that differs, *)
(* or -(min_len + 1).                                                      *)
LastDiff(parts) ==
    LET differing == {k \in 1..MinLen(parts) :
                         \E i, j \in 1..Len(parts) :
                             parts[i][Len(parts[i]) - k + 1] # parts[j][Len(parts[j]) - k + 1]}
    IN IF differing = {} THEN -(MinLen(parts) + 1) ELSE -Min(differing)

(* Lines 87-96: the differentiating part of one path; <<"TypeError">> is   *)
(* os.path.join unpacking an empty slice, a call without arguments.        *)
JoinFailed == <<"TypeError">>

UniquePart(part, first_diff, last_diff) ==
    IF first_diff >= Len(part) \/ -last_diff >= Len(part)
    THEN Basename(part)
    ELSE IF last_diff = -1
    THEN JoinParts(SubSeq(part, first_diff + 1, Len(part)))
    ELSE IF first_diff + 1 > Len(part) + last_diff + 1
    THEN JoinFailed
    ELSE JoinParts(SubSeq(part, first_diff + 1, Len(part) + last_diff + 1))

(* Lines 101-113: the number of leading (trailing) characters all paths share. *)
CommonPrefixLen(strings) ==
    LET n == MinLen(strings)
        differing == {c \in 1..n : \E i, j \in 1..Len(strings) : strings[i][c] # strings[j][c]}
    IN IF differing = {} THEN n ELSE Min(differing) - 1

CommonSuffixLen(strings) ==
    LET n == MinLen(strings)
        differing == {c \in 1..n :
                         \E i, j \in 1..Len(strings) :
                             strings[i][Len(strings[i]) - c + 1] # strings[j][Len(strings[j]) - c + 1]}
    IN IF differing = {} THEN n ELSE Min(differing) - 1

Trimmed(string, prefix, suffix) ==
    IF prefix + 1 > Len(string) - suffix THEN <<>>
    ELSE SubSeq(string, prefix + 1, Len(string) - suffix)

(* f"{i+1}:{os.path.basename(path)}" *)
Numbered(i, path) == <<(<<"1", "2", "3", "4">>)[i], ":">> \o Basename(path)

Identified(ids) == [error |-> "none", ids |-> ids]

(* ids[i] is the identifier of file_paths[i]; error "type" is the TypeError *)
(* raised at line 95.                                                       *)
get_unique_identifiers(file_paths) ==
    LET n == Len(file_paths)
        filenames == [i \in 1..n |-> Basename(file_paths[i])]
        parent_and_filename == [i \in 1..n |-> ParentAndFilename(file_paths[i])]
        parts == file_paths
        paths == [i \in 1..n |-> JoinParts(file_paths[i])]
        first_diff == FirstDiff(parts)
        last_diff == LastDiff(parts)
        unique_parts == [i \in 1..n |-> UniquePart(parts[i], first_diff, last_diff)]
        trimmed == [i \in 1..n |->
                       Trimmed(paths[i], CommonPrefixLen(paths), CommonSuffixLen(paths))]
    IN IF n = 0 THEN Identified(<<>>)
       ELSE IF n = 1 THEN Identified(<<Basename(file_paths[1])>>)
       ELSE IF AllDifferent(filenames) THEN Identified(filenames)
       ELSE IF AllDifferent(parent_and_filename) THEN Identified(parent_and_filename)
       ELSE IF \E i \in 1..n : unique_parts[i] = JoinFailed
       THEN [error |-> "type", ids |-> <<>>]
       ELSE IF AllDifferent(unique_parts) THEN Identified(unique_parts)
       ELSE IF AllDifferent(trimmed) THEN Identified(trimmed)
       ELSE Identified([i \in 1..n |-> Numbered(i, file_paths[i])])

(* Paths that end in different names, in one name under different folders, *)
(* in one name and folder under different roots, and at different depths.  *)
PathChoices ==
    { <<"a", "f">>, <<"a", "g">>, <<"b", "f">>,
      <<"a", "p", "f">>, <<"b", "p", "f">>, <<"a", "q", "f">>,
      <<"x", "a", "f">>, <<"y", "x", "a", "f">>,
      <<"x", "y", "f">>, <<"x", "y", "x", "y", "f">> }

IdentifierCalls ==
    [fn : {"get_unique_identifiers"},
     file_paths : {<<>>} \cup DistinctSeqs(PathChoices, NFiles)]

IdentifiersInit ==
    /\ PeakInit
    /\ AnnoInit
    /\ PrefsInit
    /\ OrderInit
    /\ FftIdle
    /\ KeyIdle
    /\ tool_call \in IdentifierCalls
    /\ tool_result = NoToolCall

GetUniqueIdentifiers ==
    /\ tool_call.fn = "get_unique_identifiers"
    /\ tool_result = NoToolCall
    /\ LET out == get_unique_identifiers(tool_call.file_paths)
       IN tool_result' = [fn |-> "get_unique_identifiers", error |-> out.error,
                          ids |-> out.ids]
    /\ UNCHANGED tool_call

IdentifiersNext == GetUniqueIdentifiers /\ UNCHANGED notToolVars

IdentifiersSpec == IdentifiersInit /\ [][IdentifiersNext]_vars

-----------------------------------------------------------------------------
(* tools/fft_analysis.py: perform_binning.  A positive frequency is given  *)
(* by its logarithm, an even integer in units of half a bin width (so that *)
(* bins_per_decade bins make a decade and a bin centre is an odd integer); *)
(* ZeroHz is the frequency 0.  A mean is the pair of a sum and a count.    *)
(* The arithmetic is exact: a sample on a bin edge belongs to the bin on   *)
(* its right, and the largest sample lies on the last edge, outside.       *)

ZeroHz == -1

LogFrequencies == {0, 2, 4}

Mean(sum, n) == [sum |-> sum, n |-> n]

Binned(error, binned_freq, binned_psd) ==
    [error |-> error, binned_freq |-> binned_freq, binned_psd |-> binned_psd]

RECURSIVE SumOver(_, _)
SumOver(psd, indices) ==
    IF indices = {} THEN 0
    ELSE LET i == CHOOSE k \in indices : TRUE
         IN psd[i] + SumOver(psd, indices \ {i})

(* Lines 171-209 on the samples left after the zero frequency was set     *)
(* aside: dc is <<>> or the pair <<f0, p0>>.                              *)
LogBins(freq, psd, dc) ==
    LET values == {freq[i] : i \in 1..Len(freq)}
        log_f_min == Min(values)
        log_f_max == Max(values)
        num_bins == IF log_f_max - log_f_min < 2 THEN 1 ELSE (log_f_max - log_f_min) \div 2
        mask(b) == {i \in 1..Len(freq) :
                       /\ freq[i] >= log_f_min + 2 * (b - 1)
                       /\ freq[i] < IF log_f_max = log_f_min THEN log_f_min
                                    ELSE log_f_min + 2 * b}
        filled == SelectSeq([b \in 1..num_bins |-> b], LAMBDA b : mask(b) # {})
    IN Binned("none",
              (IF dc = <<>> THEN <<>> ELSE <<dc[1]>>)
                  \o [k \in 1..Len(filled) |-> log_f_min + 2 * filled[k] - 1],
              (IF dc = <<>> THEN <<>> ELSE <<Mean(dc[2], 1)>>)
                  \o [k \in 1..Len(filled) |->
                        Mean(SumOver(psd, mask(filled[k])), Cardinality(mask(filled[k])))])

(* error "value": log10(0) - log10(0) is nan and int(nan) raises           *)
(* ValueError; error "overflow": log10(max) - log10(0) is inf and int(inf) *)
(* raises OverflowError (line 175).                                        *)
perform_binning(freq, psd) ==
    IF Len(freq) = 0 \/ Len(psd) = 0 THEN Binned("none", <<>>, <<>>)
    ELSE LET skip == freq[1] = ZeroHz
             dc == IF skip THEN <<freq[1], psd[1]>> ELSE <<>>
             f == IF skip THEN Tail(freq) ELSE freq
             q == IF skip THEN Tail(psd) ELSE psd
         IN IF Len(f) = 0 THEN Binned("none", <<>>, <<>>)
            ELSE IF \A i \in 1..Len(f) : f[i] = ZeroHz THEN Binned("value", <<>>, <<>>)
            ELSE IF \E i \in 1..Len(f) : f[i] = ZeroHz THEN Binned("overflow", <<>>, <<>>)
            ELSE LogBins(f, q, dc)

(* Aligned inputs: any frequencies, with the power values 3, 6, 9, ... *)
BinningCalls ==
    {[fn |-> "perform_binning", freq |-> freq, psd |-> [i \in 1..Len(freq) |-> 3 * i]] :
        freq \in SeqsUpTo({ZeroHz} \cup LogFrequencies, MaxSamples)}

BinningInit ==
    /\ PeakInit
    /\ AnnoInit
    /\ PrefsInit
    /\ OrderInit
    /\ FftIdle
    /\ KeyIdle
    /\ tool_call \in BinningCalls
    /\ tool_result = NoToolCall

PerformBinning ==
    /\ tool_call.fn = "perform_binning"
    /\ tool_result = NoToolCall
    /\ LET out == perform_binning(tool_call.freq, tool_call.psd)
       IN tool_result' = [fn |-> "perform_binning", error |-> out.error,
                          binned_freq |-> out.binned_freq, binned_psd |-> out.binned_psd]
    /\ UNCHANGED tool_call

BinningNext == PerformBinning /\ UNCHANGED notToolVars

BinningSpec == BinningInit /\ [][BinningNext]_vars

-----------------------------------------------------------------------------
(* tools/fft_analysis.py: perform_fft on a sampled sinusoid.  All angles   *)
(* are multiples of 30 degrees, so every sample and every DFT factor is a  *)
(* number a + b*sqrt(3) with integers a, b, written <<a, b>>, and the      *)
(* transform is computed exactly.  Samples and factors are doubled; an     *)
(* amplitude is given by its square (the scale is common to all bins).     *)
(* Frequencies are integers in units of 1/24 per time unit.                *)

SineFreqPerTime == 24

R3Add(x, y) == <<x[1] + y[1], x[2] + y[2]>>
R3Neg(x) == <<-x[1], -x[2]>>
R3Mul(x, y) == <<x[1] * y[1] + 3 * x[2] * y[2], x[1] * y[2] + x[2] * y[1]>>

(* a + b*sqrt(3) >= 0 *)
R3NonNeg(x) ==
    \/ x[1] >= 0 /\ x[2] >= 0
    \/ x[1] >= 0 /\ x[2] < 0 /\ x[1] * x[1] >= 3 * x[2] * x[2]
    \/ x[1] < 0 /\ x[2] > 0 /\ 3 * x[2] * x[2] >= x[1] * x[1]

R3Leq(x, y) == R3NonNeg(R3Add(y, R3Neg(x)))

RECURSIVE R3Sum(_)
R3Sum(xs) == IF xs = <<>> THEN <<0, 0>> ELSE R3Add(xs[1], R3Sum(Tail(xs)))

(* 2*sin(m * 30 degrees) and 2*cos(m * 30 degrees) *)
TwoSin(m) ==
    (<< <<0, 0>>, <<1, 0>>, <<0, 1>>, <<2, 0>>, <<0, 1>>, <<1, 0>>,
        <<0, 0>>, <<-1, 0>>, <<0, -1>>, <<-2, 0>>, <<0, -1>>, <<-1, 0>> >>)[(m % 12) + 1]

TwoCos(m) == TwoSin(m + 3)

(* y = A*sin(2*pi*f0*t + phase) sampled n times at fs = 12*f0/twelfths. *)
Sinusoid(n, twelfths, phase) == [j \in 1..n |-> TwoSin(twelfths * (j - 1) + phase)]

TimeAxis(n, dt) == [j \in 1..n |-> (j - 1) * dt]

(* The k-th smallest of the values of a sequence. *)
KthSmallest(xs, k) ==
    CHOOSE v \in {xs[i] : i \in 1..Len(xs)} :
        /\ Cardinality({i \in 1..Len(xs) : xs[i] < v}) < k
        /\ Cardinality({i \in 1..Len(xs) : xs[i] <= v}) >= k

(* np.median(np.diff(t)) *)
MedianDiff(t) ==
    LET diffs == [i \in 1..(Len(t) - 1) |-> t[i + 1] - t[i]]
        m == Len(diffs)
    IN (KthSmallest(diffs, (m + 1) \div 2) + KthSmallest(diffs, (m \div 2) + 1)) \div 2

(* fft.rfft(y): bin k is the pair of its real and imaginary part. *)
RFFT(y) ==
    LET n == Len(y)
        turn == 12 \div n
    IN [k1 \in 1..((n \div 2) + 1) |->
          [re |-> R3Sum([j \in 1..n |-> R3Mul(y[j], TwoCos(turn * (j - 1) * (k1 - 1)))]),
           im |-> R3Neg(R3Sum([j \in 1..n |->
                                  R3Mul(y[j], TwoSin(turn * (j - 1) * (k1 - 1)))]))]]

(* fft.rfftfreq(n, dt) *)
RFFTFreq(n, dt) == [k1 \in 1..((n \div 2) + 1) |-> ((k1 - 1) * SineFreqPerTime) \div (n * dt)]

AbsSquared(z) == R3Add(R3Mul(z.re, z.re), R3Mul(z.im, z.im))

(* Variant: the frequency axis is laid out for twice as many samples. *)
PerformFFTHalvedAxis(t, y) ==
    LET dt == MedianDiff(t)
        n == Len(y)
        yf == RFFT(y)
        freq == RFFTFreq(2 * n, dt)
    IN [freq |-> freq,
        amplitude |-> [k1 \in 1..Len(yf) |-> AbsSquared(yf[k1])],
        df |-> IF Len(freq) > 1 THEN freq[2] - freq[1] ELSE 0]

(* perform_fft with detrend = False *)
perform_fft(t, y) ==
    LET dt == MedianDiff(t)
        n == Len(y)
        yf == RFFT(y)
        freq == RFFTFreq(n, dt)
    IN [freq |-> freq,
        amplitude |-> [k1 \in 1..Len(yf) |-> AbsSquared(yf[k1])],
        df |-> IF Len(freq) > 1 THEN freq[2] - freq[1] ELSE 0]

WindowLengths == {4, 6, 12}
SineTwelfths == {1, 2, 3, 4}
SinePhases == 0..11
SineSteps == {1, 2}

SineCalls ==
    [fn : {"perform_fft"}, n : WindowLengths, twelfths : SineTwelfths,
     phase : SinePhases, dt : SineSteps]

SineInit ==
    /\ PeakInit
    /\ AnnoInit
    /\ PrefsInit
    /\ OrderInit
    /\ FftIdle
    /\ KeyIdle
    /\ tool_call \in SineCalls
    /\ tool_result = NoToolCall

PerformFFT ==
    /\ tool_call.fn = "perform_fft"
    /\ tool_result = NoToolCall
    /\ LET out == perform_fft(TimeAxis(tool_call.n, tool_call.dt),
                              Sinusoid(tool_call.n, tool_call.twelfths, tool_call.phase))
       IN tool_result' = [fn |-> "perform_fft", freq |-> out.freq,
                          amplitude |-> out.amplitude, df |-> out.df]
    /\ UNCHANGED tool_call

SineNext == PerformFFT /\ UNCHANGED notToolVars

SineSpec == SineInit /\ [][SineNext]_vars

-----------------------------------------------------------------------------
(* Properties of the click-selected peak collection.  They are stated on   *)
(* the stores only: what the cache holds, what the collection holds.       *)

Labelled(peak) == "frequency_label" \in DOMAIN peak

(* The positions of the records that carry the label of frequency f. *)
Group(f) ==
    {i \in 1..Len(selected_peaks) : GetLabel(selected_peaks[i]) = FrequencyLabel(f)}

(* The samples of a cached trace that lie nearest to f. *)
NearestSamples(trace, f) ==
    {i \in 1..Len(trace.freq) :
        \A j \in 1..Len(trace.freq) : Abs(trace.freq[i] - f) <= Abs(trace.freq[j] - f)}

(* |matched - f| / f <= 0.01; at f = 0 only the sample 0 itself passes. *)
WithinOnePercent(matched, f) ==
    IF f = 0 THEN matched = 0 ELSE 100 * Abs(matched - f) <= f

(* The cached trace has a usable sample within tolerance of f. *)
Matching(trace, f) ==
    \E i \in NearestSamples(trace, f) :
        /\ WithinOnePercent(trace.freq[i], f)
        /\ trace.mag[i] # NaN
        /\ trace.phase[i] # NaN

MatchingTraces(f) == {k \in 1..Len(raw_data) : Matching(raw_data[k], f)}

(* The record is what the cache holds for its trace at the nearest sample to f. *)
FromCache(peak, f) ==
    \E k \in 1..Len(raw_data) :
        /\ raw_data[k].name = peak.trace
        /\ \E i \in NearestSamples(raw_data[k], f) :
              /\ raw_data[k].freq[i] = peak.frequency
              /\ raw_data[k].mag[i] = peak.magnitude
              /\ raw_data[k].phase[i] = peak.phase

(* The last handler was a click whose query produced a batch. *)
ClickRan == last.op = "click" /\ last.outcome \in {"inserted", "replaced"}

(* C1: no two labelled records of the collection share both the frequency  *)
(* label and the trace; after a click whose query produced a batch, the    *)
(* group of its label holds one record per matching cached trace, however  *)
(* often that frequency was queried before.                                *)
C1_OneRecordPerLabelAndTrace ==
    /\ \A i, j \in 1..Len(selected_peaks) :
          (i < j /\ Labelled(selected_peaks[i]) /\ Labelled(selected_peaks[j]))
              => ~(/\ selected_peaks[i].frequency_label = selected_peaks[j].frequency_label
                   /\ selected_peaks[i].trace = selected_peaks[j].trace)
    /\ ClickRan => Cardinality(Group(last.x)) = Cardinality(MatchingTraces(last.x))

(* The same frequency queried again on the same cache: two records, as before. *)
C1_Witness ==
    /\ last.op = "click" /\ last.outcome = "replaced" /\ ~last.changed
    /\ Cardinality(Group(last.x)) = 2

C3_MatchWithinOnePercent ==
    (ClickRan /\ last.x > 0) =>
        /\ \A i \in Group(last.x) :
              100 * Abs(selected_peaks[i].frequency - last.x) <= last.x
        /\ \A k \in 1..Len(raw_data) :
              (\A s \in NearestSamples(raw_data[k], last.x) :
                    100 * Abs(raw_data[k].freq[s] - last.x) > last.x)
                  => \A i \in Group(last.x) : selected_peaks[i].trace # raw_data[k].name

(* One trace matched off the clicked frequency, another was out of tolerance. *)
C3_Witness ==
    /\ ClickRan /\ last.x > 0
    /\ \E i \in Group(last.x) : selected_peaks[i].frequency # last.x
    /\ \E k \in 1..Len(raw_data) :
          \A s \in NearestSamples(raw_data[k], last.x) :
              100 * Abs(raw_data[k].freq[s] - last.x) > last.x

(* C4: every record of the batch is read at one sample of its trace, a    *)
(* sample nearest to the clicked frequency: its frequency, magnitude and   *)
(* phase are the values of the cache at that same index.                   *)
C4_NearestSampleAtOneIndex ==
    ClickRan => \A i \in Group(last.x) :
        \E k \in 1..Len(raw_data) :
            /\ raw_data[k].name = selected_peaks[i].trace
            /\ \E s \in 1..Len(raw_data[k].freq) :
                  /\ \A j \in 1..Len(raw_data[k].freq) :
                        Abs(raw_data[k].freq[s] - last.x) <= Abs(raw_data[k].freq[j] - last.x)
                  /\ selected_peaks[i].frequency = raw_data[k].freq[s]
                  /\ selected_peaks[i].magnitude = raw_data[k].mag[s]
                  /\ selected_peaks[i].phase = raw_data[k].phase[s]

(* A record matched at a sample other than the first, off the clicked frequency. *)
C4_Witness ==
    /\ ClickRan
    /\ \E i \in Group(last.x) :
          selected_peaks[i].frequency # last.x /\ selected_peaks[i].frequency > 0

(* C5 as stated: from one state, two clicks at the same frequency on       *)
(* different curves of the figure give the same collection.                *)
C5_ClickEffectIndependentOfCurve ==
    (current_phase_figure # <<>> /\ raw_data # <<>>) =>
        \A p, q \in ClickPoints :
            p.x = q.x =>
                select_peak_from_click(p, raw_data, current_phase_figure,
                                       selected_peaks).peaks
                  = select_peak_from_click(q, raw_data, current_phase_figure,
                                           selected_peaks).peaks

(* C6: the collection is in ascending order of (frequency, trace) in every state. *)
C6_SortedByFrequencyThenTrace ==
    \A i, j \in 1..Len(selected_peaks) :
        i < j =>
            \/ selected_peaks[i].frequency < selected_peaks[j].frequency
            \/ /\ selected_peaks[i].frequency = selected_peaks[j].frequency
               /\ TraceRank(selected_peaks[i].trace) <= TraceRank(selected_peaks[j].trace)

(* A click put its record in front of a record that was there before. *)
C6_Witness ==
    /\ last.op = "click" /\ last.outcome = "inserted"
    /\ Len(selected_peaks) = 2
    /\ 1 \in Group(last.x)
    /\ 2 \notin Group(last.x)

(* C7 as stated: in the returned collection the records of the new group   *)
(* appear in descending order of magnitude.                                *)
C7_GroupInMagnitudeOrder ==
    ClickRan => \A i, j \in Group(last.x) :
        i < j => selected_peaks[i].magnitude >= selected_peaks[j].magnitude

(* C7: in the returned collection the records of the new group appear in   *)
(* ascending order of (frequency, trace), whatever their magnitudes.       *)
C7_GroupInFrequencyTraceOrder ==
    ClickRan => \A i, j \in Group(last.x) :
        i < j =>
            \/ selected_peaks[i].frequency < selected_peaks[j].frequency
            \/ /\ selected_peaks[i].frequency = selected_peaks[j].frequency
               /\ TraceRank(selected_peaks[i].trace) < TraceRank(selected_peaks[j].trace)

(* The weaker record of a group stands before the stronger one. *)
C7_Witness ==
    /\ ClickRan
    /\ \E i, j \in Group(last.x) :
          i < j /\ selected_peaks[i].magnitude < selected_peaks[j].magnitude

(* C8: a click whose query ran is no error when traces, or all of them,    *)
(* have no sample within tolerance: with no matching trace the collection  *)
(* is left as it was, otherwise the group of the clicked frequency holds   *)
(* a record for exactly the matching cached traces.                        *)
C8_RecordsForExactlyMatchingTraces ==
    (last.op = "click" /\ last.outcome # "no_trace") =>
        IF MatchingTraces(last.x) = {}
        THEN last.outcome = "no_match" /\ ~last.changed
        ELSE /\ ClickRan
             /\ \A k \in 1..Len(raw_data) :
                   k \in MatchingTraces(last.x)
                     <=> \E i \in Group(last.x) : selected_peaks[i].trace = raw_data[k].name

(* One cached trace matched and got a record, another did not match. *)
C8_Witness ==
    /\ ClickRan
    /\ MatchingTraces(last.x) # {}
    /\ \E k \in 1..Len(raw_data) : k \notin MatchingTraces(last.x)

(* The magnitude curves of the stored figure that detection can use. *)
UsableCurves ==
    LET data == current_phase_figure[1].data
    IN {c \in 1..Len(data) :
           /\ data[c].yaxis = "y"
           /\ data[c].y # <<>>
           /\ \A s \in 1..Len(data[c].y) : data[c].y[s] # NaN}

-----------------------------------------------------------------------------
(* Properties of the annotation list *)

(* The positions in a list of the annotations labelled label within 0.001 Hz of freq. *)
SameHarmonic(annotations, freq, label) ==
    {k \in 1..Len(annotations) :
        annotations[k].label = label /\ 2 * Abs(annotations[k].freq - freq) < 5}

(* C10: generating the rotor harmonics of f1 = rpm / 60 adds, for each h   *)
(* of 1, 2, 3, 4, 6, 8, 9, one annotation (h * f1, "hP") when the list had *)
(* no annotation labelled "hP" within 0.001 Hz of h * f1, and none when it *)
(* had one; an annotation at that frequency with another label does not    *)
(* count, and nothing else is added or removed.                            *)
C10_HarmonicAddedUnlessPresent ==
    lastAnno.op = "harmonics" =>
        LET freq_1p == RpmToHz(lastAnno.arg)
            had(n) == Cardinality(SameHarmonic(lastAnno.before, harmonics[n] * freq_1p,
                                               HarmonicLabel(harmonics[n])))
            has(n) == Cardinality(SameHarmonic(fft_annotations, harmonics[n] * freq_1p,
                                               HarmonicLabel(harmonics[n])))
            added == {n \in 1..Len(harmonics) : had(n) = 0}
        IN /\ \A n \in 1..Len(harmonics) : has(n) = IF had(n) = 0 THEN 1 ELSE had(n)
           /\ Len(fft_annotations) = Len(lastAnno.before) + Cardinality(added)

(* The list had "1P" near f1 (not added again) and another label at 3 * f1 *)
(* (so "3P" was added).                                                    *)
C10_Witness ==
    /\ lastAnno.op = "harmonics"
    /\ \E k \in 1..Len(lastAnno.before) :
          /\ lastAnno.before[k].label = "1P"
          /\ lastAnno.before[k].freq # RpmToHz(lastAnno.arg)
          /\ 2 * Abs(lastAnno.before[k].freq - RpmToHz(lastAnno.arg)) < 5
    /\ \E k \in 1..Len(lastAnno.before) :
          /\ lastAnno.before[k].label # "3P"
          /\ lastAnno.before[k].freq = 3 * RpmToHz(lastAnno.arg)
    /\ SameHarmonic(lastAnno.before, 3 * RpmToHz(lastAnno.arg), "3P") = {}

(* The orders a caller might wish to request: the pair of the documented  *)
(* example and the default set.                                            *)
OrderChoices == {{1, 2}, {1, 2, 3, 4, 6, 8, 9}}

(* C11 as stated: on an empty list the generated annotations are those of  *)
(* the orders the caller requests, whichever of the order sets that is:    *)
(* orders {1, 2} give exactly "1P" and "2P".                               *)
C11_OrdersAreTheCallers ==
    (lastAnno.op = "harmonics" /\ lastAnno.before = <<>>) =>
        \A orders \in OrderChoices :
            {fft_annotations[k].label : k \in 1..Len(fft_annotations)}
                = {HarmonicLabel(h) : h \in orders}

(* C11: on an empty list the generated annotations are exactly one per     *)
(* order of the fixed set 1, 2, 3, 4, 6, 8, 9, with frequency              *)
(* h * rpm / 60 and label "hP", in ascending order of frequency; the       *)
(* handler takes no order set from its caller.                             *)
C11_FixedOrdersOnEmptyList ==
    (lastAnno.op = "harmonics" /\ lastAnno.before = <<>>) =>
        LET f1 == lastAnno.arg \div 2
        IN fft_annotations =
              << [freq |-> 1 * f1, label |-> "1P"], [freq |-> 2 * f1, label |-> "2P"],
                 [freq |-> 3 * f1, label |-> "3P"], [freq |-> 4 * f1, label |-> "4P"],
                 [freq |-> 6 * f1, label |-> "6P"], [freq |-> 8 * f1, label |-> "8P"],
                 [freq |-> 9 * f1, label |-> "9P"] >>

(* Harmonics were generated on an empty list. *)
C11_Witness ==
    /\ lastAnno.op = "harmonics"
    /\ lastAnno.before = <<>>
    /\ Len(fft_annotations) = 7

NonEmptyTokens(text) ==
    SelectSeq([k \in 1..Len(text) |-> StripToken(text[k])], LAMBDA t : t # "")

(* How often an annotation occurs in a list. *)
Occurrences(annotations, a) ==
    Cardinality({k \in 1..Len(annotations) : annotations[k] = a})

(* C13: an add with valid frequency text of k non-empty tokens keeps every *)
(* annotation of the list and adds exactly k: the i-th frequency with the  *)
(* i-th supplied label if there is one, with "F{i}" otherwise.             *)
C13_AddKeepsAllAndLabelsByPosition ==
    (lastAnno.op = "add" /\ ~lastAnno.error) =>
        LET tokens == NonEmptyTokens(lastAnno.arg[1])
            label_input == lastAnno.arg[2]
            expected == [i \in 1..Len(tokens) |->
                [freq |-> FloatOf(tokens[i]),
                 label |-> IF i <= Len(label_input) THEN label_input[i]
                           ELSE <<"F1", "F2", "F3">>[i]]]
            all == {fft_annotations[k] : k \in 1..Len(fft_annotations)}
                     \cup {lastAnno.before[k] : k \in 1..Len(lastAnno.before)}
                     \cup {expected[i] : i \in 1..Len(expected)}
        IN /\ Len(fft_annotations) = Len(lastAnno.before) + Len(tokens)
           /\ \A a \in all :
                 Occurrences(fft_annotations, a)
                   = Occurrences(lastAnno.before, a) + Occurrences(expected, a)

(* Two frequencies and one label were added to a list that held annotations. *)
C13_Witness ==
    /\ lastAnno.op = "add" /\ ~lastAnno.error
    /\ lastAnno.before # <<>>
    /\ Len(NonEmptyTokens(lastAnno.arg[1])) = 2
    /\ Len(lastAnno.arg[2]) = 1
    /\ \E k \in 1..Len(fft_annotations) : fft_annotations[k].label = "F2"

(* C14: an add whose frequency text holds a token that is no number        *)
(* reports an error, returns the list it was given and saves nothing,      *)
(* even when other tokens of the text are numbers.                         *)
C14_BadTokenLeavesListUntouched ==
    (/\ lastAnno.op = "add"
     /\ \E k \in 1..Len(lastAnno.arg[1]) : lastAnno.arg[1][k] = "abc")
        => /\ lastAnno.error
           /\ ~lastAnno.saved
           /\ fft_annotations = lastAnno.before
           /\ custom_annotations = lastAnno.before

(* The text held a number and a token that is none; the list held annotations. *)
C14_Witness ==
    /\ lastAnno.op = "add" /\ lastAnno.error
    /\ lastAnno.before # <<>>
    /\ \E k \in 1..Len(lastAnno.arg[1]) : lastAnno.arg[1][k] = "1.0"
    /\ \E k \in 1..Len(lastAnno.arg[1]) : lastAnno.arg[1][k] = "abc"

-----------------------------------------------------------------------------
(* Properties of the preprocessing of compute_fft and compute_phase_fft *)

(* A call has returned a result (it raised nothing). *)
ResultReturned == fft_result.fn # "none" /\ fft_result.error = "none"

(* The rows of the frame that lie in the requested time range and have     *)
(* neither a nan time nor a nan value, in their order in the frame.        *)
RowsToKeep ==
    SeqOfSet({i \in 1..Len(fft_call.data.time) :
        /\ fft_call.data.time[i] # NaN
        /\ fft_call.data.value[i] # NaN
        /\ (fft_call.start_time = NoTime \/ fft_call.data.time[i] >= fft_call.start_time)
        /\ (fft_call.end_time = NoTime \/ fft_call.data.time[i] <= fft_call.end_time)})

(* C15: the samples the transform gets are rows of the frame within        *)
(* start_time <= time <= end_time (each bound only when given) with        *)
(* neither time nor value nan, in their original order and without gaps;   *)
(* with no n_exp they are all of those rows.                               *)
C15_SamplesAreRowsInRangeWithoutNaN ==
    ResultReturned =>
        /\ Len(fft_result.t) = Len(fft_result.y)
        /\ Len(fft_result.t) <= Len(RowsToKeep)
        /\ fft_call.n_exp = NoExp => Len(fft_result.t) = Len(RowsToKeep)
        /\ \A k \in 1..Len(fft_result.t) :
              /\ fft_result.t[k] = fft_call.data.time[RowsToKeep[k]]
              /\ fft_result.y[k] = fft_call.data.value[RowsToKeep[k]]

(* Both bounds given, the row at the end bound kept, a nan row dropped. *)
C15_Witness ==
    /\ ResultReturned
    /\ fft_call.n_exp = NoExp
    /\ fft_call.start_time # NoTime /\ fft_call.end_time # NoTime
    /\ \E i \in 1..Len(fft_call.data.value) : fft_call.data.value[i] = NaN
    /\ fft_result.t[Len(fft_result.t)] = fft_call.end_time
    /\ Len(fft_result.t) < Len(fft_call.data.time) - 1

(* C16 as stated: no result is computed from fewer than 2 samples,         *)
(* whatever n_exp >= 0 is given.                                           *)
C16_NoResultFromFewerThanTwoSamples ==
    ResultReturned => Len(fft_result.t) >= 2

(* C17: with n_exp given the transform gets exactly the first              *)
(* min(2^n_exp, N) of the N cleaned samples, unchanged and not padded;     *)
(* without n_exp it gets all N.                                            *)
C17_FirstPowerOfTwoSamples ==
    ResultReturned =>
        LET N == Len(RowsToKeep)
            limit == IF fft_call.n_exp = NoExp THEN N
                     ELSE <<1, 2, 4, 8>>[fft_call.n_exp + 1]
            n_points == IF limit < N THEN limit ELSE N
        IN /\ fft_result.t = [k \in 1..n_points |-> fft_call.data.time[RowsToKeep[k]]]
           /\ fft_result.y = [k \in 1..n_points |-> fft_call.data.value[RowsToKeep[k]]]

(* Five cleaned samples were cut to the first four. *)
C17_Witness ==
    /\ ResultReturned
    /\ fft_call.n_exp = 2
    /\ Len(RowsToKeep) = 5
    /\ fft_result.t = <<0, 10, 20, 30>>

(* C18 as stated: compute_fft fails with an empty-input error on an empty  *)
(* frame, with a data-insufficiency error on a frame of one row and with a *)
(* type error on a non-numeric column.                                     *)
C18_BadInputClassifiedByKind ==
    fft_result.fn = "compute_fft" =>
        /\ Len(fft_call.data.time) = 0 => fft_result.error = "empty"
        /\ Len(fft_call.data.time) = 1 => fft_result.error = "insufficient"
        /\ ~fft_call.data.numeric => fft_result.error = "type"

-----------------------------------------------------------------------------
(* The pairs of a calculation: every chosen signal with every loaded file. *)
CalculateRan == last.op = "calculate" /\ last.x.signals # {}

PairSucceeds(signal, file) ==
    compute_phase_fft(file, signal, NoTime, last.x.end_time, last.x.n_exp).ok

Cached(signal, file) ==
    \E k \in 1..Len(raw_data) : raw_data[k].name = TraceName(signal, file)

-----------------------------------------------------------------------------
(* C20: the keys "{signal} - {file identifier}" of the spectra of one       *)
(* calculation are pairwise different: every pair whose spectrum was stored *)
(* still has its own entry in the cache, none was overwritten by another    *)
(* pair's.                                                                  *)
C20_TraceKeysUnique ==
    /\ Cardinality(key_cache) = Cardinality(key_stored)
    /\ \A p \in key_stored :
          \E e \in key_cache :
              /\ e.signal = PairSignal(key_call, p)
              /\ e.file = PairFile(key_call, p)

(* Two signals over two files, one identifier holding " - " after a part   *)
(* that is itself a chosen signal's name; all four spectra are cached.     *)
C20_Witness ==
    /\ key_pos = 4
    /\ Cardinality(key_stored) = 4
    /\ Cardinality(key_cache) = 4
    /\ \E i \in 1..Len(key_call.file_identifiers) :
          /\ Len(key_call.file_identifiers[i]) > 1
          /\ \E j \in 1..Len(key_call.signals) :
                key_call.signals[j] = <<key_call.file_identifiers[i][1]>>

-----------------------------------------------------------------------------
(* C26: recomputing the spectra never changes the selected peaks: after a   *)
(* calculate step the collection is the one the step started from, whatever *)
(* return path was taken; only the cache and the figure are replaced.       *)
C26_CalculateKeepsSelectedPeaks ==
    last.op = "calculate" => ~last.changed

(* A recalculation over a non-empty collection that replaced the cache. *)
C26_Witness ==
    /\ last.op = "calculate"
    /\ ~last.changed
    /\ selected_peaks # <<>>
    /\ raw_data # <<>>
    /\ \E i \in 1..Len(selected_peaks) :
          \A k \in 1..Len(raw_data) : raw_data[k].name # selected_peaks[i].trace

-----------------------------------------------------------------------------
(* The magnitude traces of the stored figure that detection can use, and   *)
(* those among them whose maximum is the largest.                          *)
UsableMagnitudeTraces ==
    IF current_phase_figure = <<>> THEN {}
    ELSE {tr \in {current_phase_figure[1].data[i] :
                      i \in 1..Len(current_phase_figure[1].data)} :
            /\ tr.xaxis = "x" /\ tr.yaxis = "y"
            /\ tr.x # <<>> /\ tr.y # <<>>
            /\ \A i \in 1..Len(tr.y) : tr.y[i] # NaN
            /\ \E i \in 1..Len(tr.y) : tr.y[i] > 0}

StrongestTraces ==
    {tr \in UsableMagnitudeTraces :
        \A other \in UsableMagnitudeTraces :
            \A j \in 1..Len(other.y) : \E i \in 1..Len(tr.y) : tr.y[i] >= other.y[j]}

(* C28: automatic detection overwrites the selected peaks: afterwards no    *)
(* record of an earlier click is left, every record present names one       *)
(* single trace, a magnitude trace whose maximum is the largest, and with   *)
(* no usable trace the collection is empty.                                 *)
C28_DetectionOverwritesWithOneTrace ==
    last.op = "detect" =>
        /\ \A i \in 1..Len(selected_peaks) :
              /\ "frequency_label" \notin DOMAIN selected_peaks[i]
              /\ selected_peaks[i].trace = selected_peaks[1].trace
              /\ \E tr \in StrongestTraces : tr.name = selected_peaks[i].trace
        /\ UsableMagnitudeTraces = {} => selected_peaks = <<>>

(* A detection that changed the collection, over a figure with several     *)
(* usable traces of which the first is not the strongest.                  *)
C28_Witness ==
    /\ last.op = "detect"
    /\ last.changed
    /\ selected_peaks # <<>>
    /\ Cardinality(UsableMagnitudeTraces) > 1
    /\ \E tr \in UsableMagnitudeTraces : tr \notin StrongestTraces
    /\ current_phase_figure[1].data[1].name # selected_peaks[1].trace

-----------------------------------------------------------------------------
(* after is before without the element at the zero-based position index,   *)
(* or before itself when index is not a position of before.                *)
RemovedAt(before, index, after) ==
    IF index >= 0 /\ index < Len(before)
    THEN /\ Len(after) = Len(before) - 1
         /\ \A k \in 1..Len(after) : after[k] = before[IF k <= index THEN k ELSE k + 1]
    ELSE after = before

(* C27: removal by index takes out exactly the element at that position and *)
(* keeps the others in their order, in the peak collection and in the       *)
(* annotation list alike; an index outside the list changes nothing.        *)
C27_RemovalTakesExactlyOneElement ==
    /\ last.op = "remove" => RemovedAt(last.x[2], last.x[1], selected_peaks)
    /\ lastAnno.op = "remove" => RemovedAt(lastAnno.before, lastAnno.arg, fft_annotations)

(* The first of two peaks was removed, leaving the second; an annotation in *)
(* the middle of the list was removed.                                      *)
C27_Witness ==
    /\ last.op = "remove"
    /\ last.x[1] = 0
    /\ Len(last.x[2]) = 2
    /\ last.x[2][1] # last.x[2][2]
    /\ selected_peaks = <<last.x[2][2]>>
    /\ lastAnno.op = "remove"
    /\ lastAnno.arg > 0
    /\ lastAnno.arg < Len(lastAnno.before) - 1
    /\ Len(fft_annotations) = Len(lastAnno.before) - 1

(* A removal with an index past the end of either collection. *)
C27_StaleIndexSeen ==
    /\ last.op = "remove" /\ last.outcome = "prevented"
    /\ lastAnno.op = "remove" /\ lastAnno.arg = Len(lastAnno.before)

-----------------------------------------------------------------------------
(* C22: find_peaks fails when freq and magnitude differ in length; on two   *)
(* empty inputs it returns three empty sequences without failing; otherwise *)
(* it returns three sequences of one length in which every frequency and    *)
(* magnitude is the input's value at the peak's index.                      *)
C22_FindPeaksAlignedOrError ==
    tool_result.fn = "find_peaks" =>
        LET freq == tool_call.freq
            magnitude == tool_call.magnitude
            r == tool_result
        IN IF Len(freq) # Len(magnitude)
           THEN r.error = "value"
           ELSE /\ r.error = "none"
                /\ Len(freq) = 0 =>
                      r.indices = <<>> /\ r.frequencies = <<>> /\ r.magnitudes = <<>>
                /\ Len(r.frequencies) = Len(r.indices)
                /\ Len(r.magnitudes) = Len(r.indices)
                /\ \A i \in 1..Len(r.indices) :
                      /\ r.indices[i] \in 1..Len(freq)
                      /\ r.frequencies[i] = freq[r.indices[i]]
                      /\ r.magnitudes[i] = magnitude[r.indices[i]]

(* A call that found two peaks. *)
C22_Witness ==
    /\ tool_result.fn = "find_peaks"
    /\ tool_result.error = "none"
    /\ Len(tool_result.indices) = 2
    /\ tool_result.frequencies[1] # tool_result.frequencies[2]

(* The failing call and the empty call are both among the calls made. *)
C22_MismatchSeen ==
    /\ tool_result.fn = "find_peaks"
    /\ tool_result.error = "value"
    /\ Len(tool_call.freq) = Len(tool_call.magnitude) + 1

C22_EmptySeen ==
    /\ tool_result.fn = "find_peaks"
    /\ tool_result.error = "none"
    /\ tool_call.freq = <<>>
    /\ tool_call.magnitude = <<>>

-----------------------------------------------------------------------------
(* C21: for pairwise distinct paths get_unique_identifiers returns one      *)
(* identifier per path, the identifiers pairwise distinct; the empty list   *)
(* gives the empty mapping and a single path its base name.  The function   *)
(* raises instead for a path that repeats its own leading folders.          *)
C21_OneDistinctIdentifierPerPath ==
    tool_result.fn = "get_unique_identifiers" =>
        /\ tool_result.error = "none"
        /\ Len(tool_result.ids) = Len(tool_call.file_paths)
        /\ \A i, j \in 1..Len(tool_result.ids) :
              i # j => tool_result.ids[i] # tool_result.ids[j]
        /\ Len(tool_call.file_paths) = 1 =>
              tool_result.ids[1] = <<tool_call.file_paths[1][Len(tool_call.file_paths[1])]>>

(* What does hold: whenever the function returns, the identifiers are one  *)
(* per path and pairwise distinct.                                         *)
C21_DistinctWheneverReturned ==
    (tool_result.fn = "get_unique_identifiers" /\ tool_result.error = "none") =>
        /\ Len(tool_result.ids) = Len(tool_call.file_paths)
        /\ \A i, j \in 1..Len(tool_result.ids) :
              i # j => tool_result.ids[i] # tool_result.ids[j]

(* The call on x/y/f and x/y/x/y/f ends in the TypeError. *)
C21_JoinOfNothingSeen ==
    /\ tool_result.fn = "get_unique_identifiers"
    /\ tool_result.error = "type"
    /\ tool_call.file_paths = << <<"x", "y", "f">>, <<"x", "y", "x", "y", "f">> >>

-----------------------------------------------------------------------------
(* The input samples whose frequency lies in the bin around a centre. *)
SamplesInBin(centre) ==
    {i \in 1..Len(tool_call.freq) :
        tool_call.freq[i] # ZeroHz /\ tool_call.freq[i] \in {centre - 1, centre}}

BinningShape ==
    LET freq == tool_call.freq
        psd == tool_call.psd
        r == tool_result
    IN /\ Len(r.binned_freq) = Len(r.binned_psd)
       /\ Len(r.binned_freq) <= Len(freq)
       /\ (freq # <<>> /\ freq[1] = ZeroHz /\ \E i \in 1..Len(freq) : freq[i] # ZeroHz)
            => /\ r.binned_freq # <<>>
               /\ r.binned_freq[1] = ZeroHz
               /\ r.binned_psd[1] = [sum |-> psd[1], n |-> 1]
       /\ (\A i \in 1..Len(freq) : freq[i] = ZeroHz) => r.binned_freq = <<>>
       /\ \A k \in 1..Len(r.binned_freq) :
             r.binned_freq[k] # ZeroHz => SamplesInBin(r.binned_freq[k]) # {}

(* C23: perform_binning never throws on aligned input and returns two       *)
(* arrays of one length, no longer than the input; an input starting at 0   *)
(* with some non-zero frequency keeps (0, psd[0]) as its first pair; an     *)
(* input without a non-zero frequency gives empty output; every other bin   *)
(* of the output holds at least one input sample.                           *)
C23_BinningNeverThrows ==
    tool_result.fn = "perform_binning" =>
        /\ tool_result.error = "none"
        /\ BinningShape

(* What does hold: a call that returns has the claimed shape. *)
C23_ShapeWheneverReturned ==
    (tool_result.fn = "perform_binning" /\ tool_result.error = "none") => BinningShape

(* The call on the frequencies 0, 0 ends in the ValueError. *)
C23_TwoZerosSeen ==
    /\ tool_result.fn = "perform_binning"
    /\ tool_result.error = "value"
    /\ tool_call.freq = <<ZeroHz, ZeroHz>>

(* A returned call that kept the zero frequency and filled two bins. *)
C23_BinsSeen ==
    /\ tool_result.fn = "perform_binning"
    /\ tool_result.error = "none"
    /\ Len(tool_result.binned_freq) = 3
    /\ tool_result.binned_freq[1] = ZeroHz
    /\ \E k \in 2..3 : tool_result.binned_psd[k].n = 2

-----------------------------------------------------------------------------
(* The frequency of the sampled sinusoid, f0 = twelfths/12 of the sampling *)
(* rate 1/dt, and the bins at which the spectrum is largest.               *)
SineFrequency == (tool_call.twelfths * SineFreqPerTime) \div (12 * tool_call.dt)

LargestBins ==
    {k \in 1..Len(tool_result.amplitude) :
        \A j \in 1..Len(tool_result.amplitude) :
            R3Leq(tool_result.amplitude[j], tool_result.amplitude[k])}

(* C24: the spectrum perform_fft computes for a sinusoid of frequency f0    *)
(* sampled at three or more times f0 is largest at a bin whose frequency    *)
(* lies within one resolution df = fs/n of f0.                              *)
C24_LargestBinNearSineFrequency ==
    tool_result.fn = "perform_fft" =>
        /\ tool_result.df * tool_call.n * tool_call.dt = SineFreqPerTime
        /\ \A k \in LargestBins :
              Abs(tool_result.freq[k] - SineFrequency) <= tool_result.df

(* A sinusoid between two bins, with bins farther than df from it, whose   *)
(* spectrum is largest at a bin other than the first.                      *)
C24_Witness ==
    /\ tool_result.fn = "perform_fft"
    /\ \A k \in 1..Len(tool_result.freq) : tool_result.freq[k] # SineFrequency
    /\ \E k \in 1..Len(tool_result.freq) :
          Abs(tool_result.freq[k] - SineFrequency) > tool_result.df
    /\ 1 \notin LargestBins

-----------------------------------------------------------------------------
(* C25: a rename that returns True leaves the paths that were stored under  *)
(* the old name stored under the new name, and the old name no longer a key *)
(* unless the two names are the same; a rename or delete of a name that     *)
(* does not exist returns False and leaves the saved path sets unchanged.   *)
C25_RenameMovesPathsToNewName ==
    LET op == lastPrefs.op
        before == lastPrefs.before.saved_file_paths
        after == prefs_file.saved_file_paths
    IN /\ (op.kind = "rename_saved_file_path_set" /\ lastPrefs.result) =>
              /\ op.name \in DOMAIN before
              /\ op.value \in DOMAIN after
              /\ after[op.value] = before[op.name]
              /\ op.name # op.value => op.name \notin DOMAIN after
       /\ (op.kind \in {"rename_saved_file_path_set", "delete_saved_file_path_set"}
              /\ op.name \notin DOMAIN before) =>
              /\ ~lastPrefs.result
              /\ after = before

(* What does hold: the claim for two different names, and for a missing    *)
(* name.                                                                   *)
C25_RenameToAnotherName ==
    LET op == lastPrefs.op
        before == lastPrefs.before.saved_file_paths
        after == prefs_file.saved_file_paths
    IN /\ (op.kind = "rename_saved_file_path_set" /\ lastPrefs.result
              /\ op.name # op.value) =>
              /\ op.value \in DOMAIN after
              /\ after[op.value] = before[op.name]
              /\ op.name \notin DOMAIN after
       /\ (op.kind \in {"rename_saved_file_path_set", "delete_saved_file_path_set"}
              /\ op.name \notin DOMAIN before) =>
              /\ ~lastPrefs.result
              /\ after = before

(* A path set renamed onto its own name is gone although True was returned. *)
C25_RenameOntoItselfSeen ==
    /\ lastPrefs.op.kind = "rename_saved_file_path_set"
    /\ lastPrefs.op.name = lastPrefs.op.value
    /\ lastPrefs.result
    /\ lastPrefs.op.name \in DOMAIN lastPrefs.before.saved_file_paths
    /\ lastPrefs.op.name \notin DOMAIN prefs_file.saved_file_paths

(* A rename onto another name that replaced a set already stored there. *)
C25_RenameSeen ==
    /\ lastPrefs.op.kind = "rename_saved_file_path_set"
    /\ lastPrefs.op.name # lastPrefs.op.value
    /\ lastPrefs.result
    /\ lastPrefs.op.value \in DOMAIN lastPrefs.before.saved_file_paths
    /\ lastPrefs.before.saved_file_paths[lastPrefs.op.value]
          # lastPrefs.before.saved_file_paths[lastPrefs.op.name]

(* The section of the preferences file an operation writes. *)
SectionOf(op) ==
    CASE op.kind = "update_favorite_signals" -> "favorite_signals"
      [] op.kind = "save_fft_settings" -> "fft_settings"
      [] op.kind = "save_custom_annotations" -> "custom_annotations"
      [] op.kind = "save_plot_settings" -> "plot_settings"
      [] OTHER -> "saved_file_paths"

Sections == DOMAIN DEFAULT_PREFERENCES

(* The update of a finished operation is in the preferences. *)
UpdatePresent(op, preferences) ==
    IF op.kind = "save_file_path_set"
    THEN /\ op.name \in DOMAIN preferences.saved_file_paths
         /\ preferences.saved_file_paths[op.name] = op.value
    ELSE preferences[SectionOf(op)] = op.value

BothFinished ==
    /\ \A t \in Threads : prefs_threads[t].pc = "idle" /\ prefs_threads[t].finished # NoOp
    /\ SectionOf(prefs_threads[1].finished) # SectionOf(prefs_threads[2].finished)

(* C29: every preference-saving operation leaves the sections of the file
   other than its own as they were before it wrote, and when two
   operations on different sections have both finished, overlapping or
   not, the file holds both updates. *)
C29_BothUpdatesPresent ==
    /\ lastPrefs.op \in SectionSaves =>
          /\ UpdatePresent(lastPrefs.op, prefs_file)
          /\ \A s \in Sections \ {SectionOf(lastPrefs.op)} :
                prefs_file[s] = lastPrefs.before[s]
    /\ BothFinished =>
          \A t \in Threads : UpdatePresent(prefs_threads[t].finished, prefs_file)

(* C29, in the part the code keeps: every saving operation writes the
   preferences it loaded with its own section replaced, so it changes only
   its own section whenever no other write came between its load and its
   write. *)
C29_OwnSectionOfWhatWasLoaded ==
    lastPrefs.op \in SectionSaves =>
        /\ UpdatePresent(lastPrefs.op, prefs_file)
        /\ \A s \in Sections \ {SectionOf(lastPrefs.op)} :
              prefs_file[s] = lastPrefs.loaded[s]
        /\ lastPrefs.loaded = lastPrefs.before =>
              \A s \in Sections \ {SectionOf(lastPrefs.op)} :
                  prefs_file[s] = lastPrefs.before[s]

(* Both operations loaded before either wrote, and the update of the one
   that wrote first is no longer in the file. *)
C29_LostUpdateSeen ==
    /\ BothFinished
    /\ lastPrefs.loaded # lastPrefs.before
    /\ \E t \in Threads : ~UpdatePresent(prefs_threads[t].finished, prefs_file)

(* Two operations on different sections that ran one after the other. *)
C29_SequentialSeen ==
    /\ BothFinished
    /\ lastPrefs.loaded = lastPrefs.before
    /\ \A t \in Threads : UpdatePresent(prefs_threads[t].finished, prefs_file)

(* The place of a file in a list, from 1; 0 when it is not in the list. *)
PlaceOf(x, list) ==
    IF In(x, list) THEN CHOOSE i \in 1..Len(list) : list[i] = x ELSE 0

(* Same elements, none twice, none missing. *)
IsPermutation(order, files) ==
    /\ Len(order) = Len(files)
    /\ \A i, j \in 1..Len(order) : i # j => order[i] # order[j]
    /\ \A i \in 1..Len(files) : In(files[i], order)
    /\ \A i \in 1..Len(order) : In(order[i], files)

(* C30: after every update of the file list, move up, move down and reset
   the file order is a permutation of the loaded files; a move up at the
   first position, a move down at the last position and a move with an
   index outside the order leave the order as it was; and the files that
   stay loaded through an update of the file list keep their relative
   order. *)
C30_FileOrderIsPermutation ==
    /\ IsPermutation(file_order, loaded_files)
    /\ (lastOrder.op = "move_file_up"
           /\ (lastOrder.index <= 0 \/ lastOrder.index >= Len(lastOrder.before))) =>
           file_order = lastOrder.before
    /\ (lastOrder.op = "move_file_down"
           /\ (lastOrder.index < 0 \/ lastOrder.index >= Len(lastOrder.before) - 1)) =>
           file_order = lastOrder.before
    /\ lastOrder.op = "update_file_order_list" =>
           \A a, b \in OrderPaths :
               (/\ In(a, lastOrder.before) /\ In(b, lastOrder.before)
                /\ In(a, loaded_files) /\ In(b, loaded_files)
                /\ PlaceOf(a, lastOrder.before) < PlaceOf(b, lastOrder.before)) =>
                   PlaceOf(a, file_order) < PlaceOf(b, file_order)

(* An update of the file list that removed a file and added another while
   two files stayed, in an order that was not the order of loading. *)
C30_Witness ==
    /\ lastOrder.op = "update_file_order_list"
    /\ \E a, b \in OrderPaths :
          /\ In(a, lastOrder.before) /\ In(b, lastOrder.before)
          /\ In(a, loaded_files) /\ In(b, loaded_files)
          /\ PlaceOf(a, lastOrder.before) < PlaceOf(b, lastOrder.before)
          /\ PlaceOf(a, loaded_files) > PlaceOf(b, loaded_files)
    /\ \E gone \in OrderPaths : In(gone, lastOrder.before) /\ ~In(gone, loaded_files)
    /\ \E new \in OrderPaths : ~In(new, lastOrder.before) /\ In(new, loaded_files)

(* Moves at the two ends and with an index past the end were tried on an
   order of several files, and a move inside the order changed it. *)
C30_BoundaryMoveSeen ==
    /\ Len(lastOrder.before) >= 2
    /\ lastOrder.op = "move_file_down"
    /\ lastOrder.index = Len(lastOrder.before) - 1
    /\ file_order = lastOrder.before

C30_StaleIndexSeen ==
    /\ Len(lastOrder.before) = 2
    /\ lastOrder.op = "move_file_up"
    /\ lastOrder.index = MaxLoaded
    /\ file_order = lastOrder.before

C30_MoveSeen ==
    /\ lastOrder.op = "move_file_up"
    /\ lastOrder.index = 1
    /\ file_order # lastOrder.before
    /\ file_order # loaded_files

====
